---- MODULE Spec2Model ----
(***************************************************************************)
(* Timetable generation core: SolverService (CP model and pure-Python      *)
(* backtracking fallback) and TimetableManager.generate_timetable.         *)
(*                                                                         *)
(* Encodings.  An absent value (Python None, SQL NULL) is 0; database ids  *)
(* start at 1.  A datetime.time is the number of minutes since midnight;   *)
(* a time string "HH:MM" is the integer HHMM (so "09:00" is 900).          *)
(***************************************************************************)
EXTENDS Integers, Sequences, FiniteSets, TLC

Range(s) == {s[i] : i \in DOMAIN s}

MaxOf(S) == CHOOSE m \in S : \A n \in S : n <= m

MinOf(S) == CHOOSE m \in S : \A n \in S : m <= n

\* First index of x in the sequence s (0 when absent).
IndexOf(x, s) ==
    LET hits == {i \in DOMAIN s : s[i] = x}
    IN  IF hits = {} THEN 0 ELSE MinOf(hits)

(***************************************************************************)
(* Solver input records                                                    *)
(***************************************************************************)

SolverSection(id, group, fac, rtype, periods, allowed, lab, fixed) ==
    [id |-> id, section_id |-> group, faculty_id |-> fac,
     room_type_required |-> rtype, required_periods |-> periods,
     allowed_slot_ids |-> allowed, is_lab |-> lab, fixed_assignments |-> fixed]

SolverRoom(id, type) == [id |-> id, type |-> type]

SolverTimeslot(id, day, st, en) ==
    [id |-> id, day |-> day, start_time |-> st, end_time |-> en]

SolverResult(feasible, status, assignments, reason) ==
    [is_feasible |-> feasible, status |-> status,
     assignments |-> assignments, conflict_reason |-> reason]

\* One entry of SolverResult.assignments.
Placement(sec_id, room_id, slot_id) ==
    [section_id |-> sec_id, room_id |-> room_id, timeslot_id |-> slot_id]

(***************************************************************************)
(* Timeslot metadata (solve, step 0; repeated in _solve_fallback)          *)
(***************************************************************************)

\* slot_map.get((day, start)): a dict comprehension, the last entry wins.
SlotMapGet(timeslots, day, start) ==
    LET hits == {i \in DOMAIN timeslots :
                    timeslots[i].day = day /\ timeslots[i].start_time = start}
    IN  IF hits = {} THEN 0 ELSE timeslots[MaxOf(hits)].id

\* next_slot_lookup.get(slot_id): set only where the following id is truthy.
NextSlotLookup(timeslots, slot_id) ==
    LET hits == {i \in DOMAIN timeslots :
                    /\ timeslots[i].id = slot_id
                    /\ SlotMapGet(timeslots, timeslots[i].day,
                                  timeslots[i].end_time) # 0}
    IN  IF hits = {} THEN 0
        ELSE SlotMapGet(timeslots, timeslots[MaxOf(hits)].day,
                        timeslots[MaxOf(hits)].end_time)

SlotById(timeslots, slot_id) ==
    timeslots[MaxOf({i \in DOMAIN timeslots : timeslots[i].id = slot_id})]

SecById(sections, sec_id) ==
    sections[MaxOf({i \in DOMAIN sections : sections[i].id = sec_id})]

(***************************************************************************)
(* CP path: the boolean variables x[section.id, p_idx, room.id, slot_id]   *)
(***************************************************************************)

\* XKeysOf with a variable for every timeslot, allowed or not.
XKeysAnySlot(inp, s) ==
    {<<s.id, p, r.id, inp.timeslots[t].id>> :
        p \in 0..(s.required_periods - 1),
        r \in {rr \in Range(inp.rooms) : rr.type = s.room_type_required},
        t \in DOMAIN inp.timeslots}

\* The keys of x created for one section.
XKeysOf(inp, s) ==
    {<<s.id, p, r.id, t>> :
        p \in 0..(s.required_periods - 1),
        r \in {rr \in Range(inp.rooms) : rr.type = s.room_type_required},
        t \in Range(s.allowed_slot_ids)}

XKeys(inp) == UNION {XKeysOf(inp, s) : s \in Range(inp.sections)}

\* The keys of one period of one section.
PeriodKeys(inp, s, p) == {k \in XKeysOf(inp, s) : k[2] = p}

IsFixed(s, p) == Len(s.fixed_assignments) > 0 /\ p < Len(s.fixed_assignments)

FixedKey(s, p) ==
    <<s.id, p, s.fixed_assignments[p + 1].room_id,
      s.fixed_assignments[p + 1].timeslot_id>>

\* Position of a key in the insertion order of the dict x (section, period,
\* room, slot loops of step 1).
KeyRank(inp, k) ==
    LET si == MaxOf({i \in DOMAIN inp.sections : inp.sections[i].id = k[1]})
        ri == MinOf({i \in DOMAIN inp.rooms : inp.rooms[i].id = k[3]})
        ti == IndexOf(k[4], inp.sections[si].allowed_slot_ids)
        R  == Len(inp.rooms) + 1
        T  == MaxOf({Len(inp.sections[i].allowed_slot_ids) :
                        i \in DOMAIN inp.sections}) + 1
        P  == MaxOf({inp.sections[i].required_periods :
                        i \in DOMAIN inp.sections}) + 1
    IN  ((si * P + k[2]) * R + ri) * T + ti

RECURSIVE KeysInOrder(_, _)
KeysInOrder(inp, V) ==
    IF V = {} THEN <<>>
    ELSE LET m == CHOOSE k \in V :
                     \A j \in V : KeyRank(inp, k) <= KeyRank(inp, j)
         IN  <<m>> \o KeysInOrder(inp, V \ {m})

\* The (section index, period) pairs in the order of the C1 loop.
PeriodPairs(inp) ==
    UNION {{<<i, p>> : p \in 0..(inp.sections[i].required_periods - 1)} :
              i \in DOMAIN inp.sections}

PairBefore(a, b) == a[1] < b[1] \/ (a[1] = b[1] /\ a[2] <= b[2])

\* C1 loop, early returns: the first period whose fixed key is not a
\* variable, or that has no candidate variable.
PeriodFails(inp, pr) ==
    LET s == inp.sections[pr[1]]
    IN  IF IsFixed(s, pr[2])
        THEN FixedKey(s, pr[2]) \notin XKeys(inp)
        ELSE PeriodKeys(inp, s, pr[2]) = {}

EarlyReturn(inp) ==
    LET bad == {pr \in PeriodPairs(inp) : PeriodFails(inp, pr)}
    IN  IF bad = {} THEN <<0, 0>>
        ELSE CHOOSE pr \in bad : \A q \in bad : PairBefore(pr, q)

EarlyReason(inp) ==
    LET pr == EarlyReturn(inp)
        s  == inp.sections[pr[1]]
    IN  IF IsFixed(s, pr[2])
        THEN [msg |-> "Fixed assignment is in an invalid slot/room",
              section |-> s.id, period |-> 0]
        ELSE [msg |-> "has no valid candidates",
              section |-> s.id, period |-> pr[2]]

(***************************************************************************)
(* CP path: the hard constraints, over the set V of variables equal to 1   *)
(***************************************************************************)

\* C1: a fixed period pins its variable to 1 (and adds no sum); any other
\* period has exactly one variable at 1.
CpExactlyOne(inp, V) ==
    \A pr \in PeriodPairs(inp) :
        LET s == inp.sections[pr[1]]
        IN  IF IsFixed(s, pr[2])
            THEN FixedKey(s, pr[2]) \in V
            ELSE Cardinality(V \cap PeriodKeys(inp, s, pr[2])) = 1

\* C1.1: a lab of two periods: period 0 at (room, slot) implies period 1 at
\* (room, next slot); without such a variable period 0 cannot be there.
CpLabConsecutive(inp, V) ==
    \A s \in Range(inp.sections) :
        (s.is_lab /\ s.required_periods = 2) =>
            \A k \in PeriodKeys(inp, s, 0) :
                LET next_id == NextSlotLookup(inp.timeslots, k[4])
                    p1_key  == <<s.id, 1, k[3], next_id>>
                IN  IF next_id # 0 /\ p1_key \in XKeys(inp)
                    THEN (k \in V) => (p1_key \in V)
                    ELSE k \notin V

\* Weakened forms of C2, C3 and C4, against which the exclusivity
\* properties are seen to depend on the constraints: a room or a faculty
\* member taken twice per slot, and a group constraint that leaves out the
\* second period.
RoomConflictUpToTwo(inp, V) ==
    \A room \in Range(inp.rooms), slot \in Range(inp.timeslots) :
        Cardinality({k \in V : k[3] = room.id /\ k[4] = slot.id}) <= 2

FacultyConflictUpToTwo(inp, V) ==
    \A f_id \in {s.faculty_id : s \in Range(inp.sections)},
       slot \in Range(inp.timeslots) :
        Cardinality({k \in V :
            /\ SecById(inp.sections, k[1]).faculty_id = f_id
            /\ k[4] = slot.id}) <= 2

GroupConflictFirstPeriod(inp, V) ==
    \A group_id \in {s.section_id : s \in Range(inp.sections)},
       slot \in Range(inp.timeslots) :
        Cardinality({k \in V :
            /\ k[2] = 0
            /\ SecById(inp.sections, k[1]).section_id = group_id
            /\ k[4] = slot.id}) <= 1

\* C2: at most one variable at 1 per (room, slot of timeslots).
CpRoomConflict(inp, V) ==
    \A room \in Range(inp.rooms), slot \in Range(inp.timeslots) :
        Cardinality({k \in V : k[3] = room.id /\ k[4] = slot.id}) <= 1

\* C3: at most one variable at 1 per (faculty, slot of timeslots).
CpFacultyConflict(inp, V) ==
    \A f_id \in {s.faculty_id : s \in Range(inp.sections)},
       slot \in Range(inp.timeslots) :
        Cardinality({k \in V :
            /\ SecById(inp.sections, k[1]).faculty_id = f_id
            /\ k[4] = slot.id}) <= 1

\* C4: at most one variable at 1 per (student group, slot of timeslots).
CpGroupConflict(inp, V) ==
    \A group_id \in {s.section_id : s \in Range(inp.sections)},
       slot \in Range(inp.timeslots) :
        Cardinality({k \in V :
            /\ SecById(inp.sections, k[1]).section_id = group_id
            /\ k[4] = slot.id}) <= 1

\* A daily limit of three periods in place of two.
DailyLimitOfThree(count) == count <= 3

\* The daily subject limit both solvers apply to a non-lab requirement:
\* sum(section_day_vars) <= 2 in the CP model, and in can_place
\* "if existing + 1 > 2: return False" with count = existing + 1.
WithinDailyLimit(count) == count <= 2

\* C5: a non-lab section has at most two variables at 1 per day.
CpDailyLimit(inp, V) ==
    \A s \in Range(inp.sections) :
        (~s.is_lab) =>
            \A day \in {t.day : t \in Range(inp.timeslots)} :
                LET day_slots == {t.id : t \in {u \in Range(inp.timeslots) :
                                                    u.day = day}}
                IN  WithinDailyLimit(
                        Cardinality({k \in V \cap XKeysOf(inp, s) :
                                        k[4] \in day_slots}))

CpSat(inp, V) ==
    /\ CpExactlyOne(inp, V)
    /\ CpLabConsecutive(inp, V)
    /\ CpRoomConflict(inp, V)
    /\ CpFacultyConflict(inp, V)
    /\ CpGroupConflict(inp, V)
    /\ CpDailyLimit(inp, V)

\* The constraints that only bound sums from above: a set that breaks one
\* of them cannot be extended to a solution.
CpAtMost(inp, V) ==
    /\ CpRoomConflict(inp, V)
    /\ CpFacultyConflict(inp, V)
    /\ CpGroupConflict(inp, V)
    /\ CpDailyLimit(inp, V)

\* The values one period's variables can take under C1 and the
\* upper-bound constraints.
PeriodChoices(inp, pr) ==
    LET s == inp.sections[pr[1]]
        K == PeriodKeys(inp, s, pr[2])
    IN  IF IsFixed(s, pr[2])
        THEN {U \in {W \cup {FixedKey(s, pr[2])} : W \in SUBSET K} :
                 CpAtMost(inp, U)}
        ELSE {{k} : k \in K}

\* Every union of one choice per period that keeps the upper-bound
\* constraints (a superset of the solutions: C1 constrains each period's
\* variables separately).
RECURSIVE ChoiceUnions(_, _)
ChoiceUnions(inp, prs) ==
    IF prs = {} THEN {{}}
    ELSE LET pr == CHOOSE q \in prs : TRUE
         IN  {U \in {A \cup B : A \in PeriodChoices(inp, pr),
                                B \in ChoiceUnions(inp, prs \ {pr})} :
                 CpAtMost(inp, U)}

\* The assignments of x that satisfy every constraint added by one call.
CpSolutions(inp) ==
    {V \in ChoiceUnions(inp, PeriodPairs(inp)) : CpSat(inp, V)}

\* Step 3: the variables at 1, listed in the order of x.items().
CpAssignments(inp, V) ==
    LET ks == KeysInOrder(inp, V)
    IN  [i \in DOMAIN ks |-> Placement(ks[i][1], ks[i][3], ks[i][4])]

(***************************************************************************)
(* _solve_fallback: pure-Python backtracking                               *)
(***************************************************************************)

\* lunch_starts = {time(12, 0), time(13, 0)}
lunch_starts == {12 * 60, 13 * 60}

\* _slot_time_obj: time.fromisoformat / split(':') of the start_time string.
SlotTimeObj(slot) == (slot.start_time \div 100) * 60 + (slot.start_time % 100)

\* `s0.start_time in lunch_starts` of the lab branch: start_time is a str
\* and lunch_starts holds datetime.time values, which never equal a str.
StrInLunchStarts(start_time) == FALSE

\* The bookkeeping dicts of the search.  faculty_slot_map and group_slot_map
\* map a key to a list that can_place keeps at length <= 1: they are held
\* as the set of keys whose list is non-empty.
EmptyMaps ==
    [assignments |-> <<>>, room_slot_map |-> {}, faculty_slot_map |-> {},
     group_slot_map |-> {}, section_day_count |-> <<>>]

\* section_day_count.get(ckey, 0), the dict held as a sequence of keys, one
\* entry per unit counted.
DayCount(st, ckey) ==
    Cardinality({i \in DOMAIN st.section_day_count :
                    st.section_day_count[i] = ckey})

can_place(inp, st, section, room, slot_id) ==
    /\ section.room_type_required = room.type
    /\ slot_id \in Range(section.allowed_slot_ids)
    /\ SlotTimeObj(SlotById(inp.timeslots, slot_id)) \notin lunch_starts
    /\ <<room.id, slot_id>> \notin st.room_slot_map
    /\ <<section.faculty_id, slot_id>> \notin st.faculty_slot_map
    /\ <<section.section_id, slot_id>> \notin st.group_slot_map
    /\ (~section.is_lab) =>
          WithinDailyLimit(
              DayCount(st, <<section.section_id,
                             SlotById(inp.timeslots, slot_id).day>>) + 1)

\* order = sorted(sections, key=(-required_periods, id)).
\* Python's sort is stable: ties on (-required_periods, id) keep list order.
RECURSIVE StableOrder(_, _)
StableOrder(sections, idxs) ==
    IF idxs = {} THEN <<>>
    ELSE LET m == CHOOSE i \in idxs : \A j \in idxs :
                    \/ sections[i].required_periods > sections[j].required_periods
                    \/ /\ sections[i].required_periods = sections[j].required_periods
                       /\ sections[i].id < sections[j].id
                    \/ /\ sections[i].required_periods = sections[j].required_periods
                       /\ sections[i].id = sections[j].id
                       /\ i <= j
         IN  <<sections[m]>> \o StableOrder(sections, idxs \ {m})

Order(inp) == StableOrder(inp.sections, DOMAIN inp.sections)

\* The (room, slot_id) pairs in the order of the nested room / slot loops,
\* rooms of another type skipped.
RoomSlotPairs(inp, section) ==
    LET rs == SelectSeq(inp.rooms,
                        LAMBDA r : r.type = section.room_type_required)
        n  == Len(section.allowed_slot_ids)
    IN  [c \in 1..(Len(rs) * n) |->
            <<rs[((c - 1) \div n) + 1],
              section.allowed_slot_ids[((c - 1) % n) + 1]>>]

\* "Place both" of the lab branch.
PlaceLab(st, section, room, slot_id, next_id) ==
    [st EXCEPT
       !.assignments = @ \o << <<section.id, 0, room.id, slot_id>>,
                               <<section.id, 1, room.id, next_id>> >>,
       !.room_slot_map = @ \cup {<<room.id, slot_id>>, <<room.id, next_id>>},
       !.faculty_slot_map = @ \cup {<<section.faculty_id, slot_id>>,
                                    <<section.faculty_id, next_id>>},
       !.group_slot_map = @ \cup {<<section.section_id, slot_id>>,
                                  <<section.section_id, next_id>>}]

\* "Place" of assign_period.
PlacePeriod(inp, st, section, p_idx, room, slot_id) ==
    [st EXCEPT
       !.assignments = @ \o << <<section.id, p_idx, room.id, slot_id>> >>,
       !.room_slot_map = @ \cup {<<room.id, slot_id>>},
       !.faculty_slot_map = @ \cup {<<section.faculty_id, slot_id>>},
       !.group_slot_map = @ \cup {<<section.section_id, slot_id>>},
       !.section_day_count =
           Append(@, <<section.section_id,
                       SlotById(inp.timeslots, slot_id).day>>)]

\* The guards of the lab branch before "Place both".
LabCanStart(inp, st, section, room, slot_id) ==
    LET next_id == NextSlotLookup(inp.timeslots, slot_id)
    IN  /\ next_id # 0
        /\ next_id \in Range(section.allowed_slot_ids)
        /\ ~StrInLunchStarts(SlotById(inp.timeslots, slot_id).start_time)
        /\ ~StrInLunchStarts(SlotById(inp.timeslots, next_id).start_time)
        /\ can_place(inp, st, section, room, slot_id)
        /\ <<room.id, next_id>> \notin st.room_slot_map
        /\ <<section.faculty_id, next_id>> \notin st.faculty_slot_map
        /\ <<section.section_id, next_id>> \notin st.group_slot_map

NoPlacement == [ok |-> FALSE, st |-> EmptyMaps]

RECURSIVE backtrack(_, _, _)
RECURSIVE LabTry(_, _, _, _)
RECURSIVE assign_period(_, _, _, _, _)

\* The loops of the lab branch from candidate c on; an undone placement
\* restores the dicts, so the next candidate starts from st again.
LabTry(inp, idx, c, st) ==
    LET section == Order(inp)[idx]
        cands   == RoomSlotPairs(inp, section)
    IN  IF c > Len(cands) THEN NoPlacement
        ELSE LET room    == cands[c][1]
                 slot_id == cands[c][2]
             IN  IF LabCanStart(inp, st, section, room, slot_id)
                 THEN LET r == backtrack(inp, idx + 1,
                                 PlaceLab(st, section, room, slot_id,
                                     NextSlotLookup(inp.timeslots, slot_id)))
                      IN  IF r.ok THEN r ELSE LabTry(inp, idx, c + 1, st)
                 ELSE LabTry(inp, idx, c + 1, st)

\* assign_period(p_idx), its loops from candidate c on.
assign_period(inp, idx, p_idx, c, st) ==
    LET section == Order(inp)[idx]
        cands   == RoomSlotPairs(inp, section)
    IN  IF p_idx >= section.required_periods THEN backtrack(inp, idx + 1, st)
        ELSE IF c > Len(cands) THEN NoPlacement
        ELSE LET room    == cands[c][1]
                 slot_id == cands[c][2]
             IN  IF can_place(inp, st, section, room, slot_id)
                 THEN LET r == assign_period(inp, idx, p_idx + 1, 1,
                                 PlacePeriod(inp, st, section, p_idx,
                                             room, slot_id))
                      IN  IF r.ok THEN r
                          ELSE assign_period(inp, idx, p_idx, c + 1, st)
                 ELSE assign_period(inp, idx, p_idx, c + 1, st)

backtrack(inp, idx, st) ==
    IF idx = Len(Order(inp)) + 1 THEN [ok |-> TRUE, st |-> st]
    ELSE IF Order(inp)[idx].is_lab /\ Order(inp)[idx].required_periods = 2
         THEN LabTry(inp, idx, 1, st)
         ELSE assign_period(inp, idx, 0, 1, st)

\* _solve_fallback that, when the search fails, hands back what it could
\* place for the first section of the input.
FallbackKeepsPlaced(inp) ==
    LET r     == backtrack(inp, 1, EmptyMaps)
        first == backtrack([inp EXCEPT !.sections = SubSeq(@, 1, 1)], 1,
                           EmptyMaps)
        list(st) == [i \in DOMAIN st.assignments |->
                        Placement(st.assignments[i][1], st.assignments[i][3],
                                  st.assignments[i][4])]
    IN  IF r.ok
        THEN SolverResult(TRUE, "FEASIBLE_PYTHON", list(r.st),
                          [msg |-> "", section |-> 0, period |-> 0])
        ELSE SolverResult(FALSE, "INFEASIBLE_PYTHON", list(first.st),
                 [msg |-> "Constraints violated in fallback solver",
                  section |-> 0, period |-> 0])

_solve_fallback(inp) ==
    LET r == backtrack(inp, 1, EmptyMaps)
    IN  IF r.ok
        THEN SolverResult(TRUE, "FEASIBLE_PYTHON",
                 [i \in DOMAIN r.st.assignments |->
                     Placement(r.st.assignments[i][1], r.st.assignments[i][3],
                               r.st.assignments[i][4])],
                 [msg |-> "", section |-> 0, period |-> 0])
        ELSE SolverResult(FALSE, "INFEASIBLE_PYTHON", <<>>,
                 [msg |-> "Constraints violated in fallback solver",
                  section |-> 0, period |-> 0])

NoReason == [msg |-> "", section |-> 0, period |-> 0]

(***************************************************************************)
(* The inputs explored                                                     *)
(***************************************************************************)

MaxPeriods == 3

MaxCalls == 3

\* Monday 10-11, 11-12 and 12-13 (a lunch start).
AllSlots ==
    << SolverTimeslot(1, 0, 1000, 1100), SolverTimeslot(2, 0, 1100, 1200),
       SolverTimeslot(3, 0, 1200, 1300) >>

\* The same with Tuesday 10-11.
WeekSlots == Append(AllSlots, SolverTimeslot(4, 1, 1000, 1100))

\* Monday 09-10, 10-11 and 11-12, none of them a lunch start, and
\* Tuesday 10-11.
MorningSlots ==
    << SolverTimeslot(1, 0, 900, 1000), SolverTimeslot(2, 0, 1000, 1100),
       SolverTimeslot(3, 0, 1100, 1200), SolverTimeslot(4, 1, 1000, 1100) >>

SlotLists == {SubSeq(AllSlots, 1, 1), AllSlots}

RoomLists ==
    { << SolverRoom(1, "Lecture") >>,
      << SolverRoom(1, "Lecture"), SolverRoom(3, "Lecture") >>,
      << SolverRoom(1, "Lecture"), SolverRoom(2, "Lab"),
         SolverRoom(3, "Lecture"), SolverRoom(4, "Lab") >> }

Fix(room_id, slot_id) == [room_id |-> room_id, timeslot_id |-> slot_id]

\* The requirement lines an input draws from; every line may use every
\* slot of the input's timeslots.  Lines 1 and 2 share a faculty, lines 3,
\* 4 and 5 a student group, lines 4 and 7 a faculty; lines 6 to 9 carry
\* fixed_assignments.
SectionPool(ts) ==
    LET all == [i \in DOMAIN ts |-> ts[i].id]
    IN  << SolverSection(1, 1, 1, "Lecture", 1, all, FALSE, <<>>),
           SolverSection(2, 2, 1, "Lecture", 1, all, FALSE, <<>>),
           SolverSection(3, 3, 3, "Lecture", 2, all, FALSE, <<>>),
           SolverSection(4, 3, 4, "Lab", 2, all, TRUE, <<>>),
           SolverSection(5, 3, 5, "Lecture", 1, all, FALSE, <<>>),
           SolverSection(6, 4, 6, "Lecture", 1, all, FALSE, <<Fix(1, 1)>>),
           SolverSection(7, 5, 4, "Lecture", 2, all, FALSE, <<Fix(1, 2)>>),
           SolverSection(8, 6, 7, "Lab", 2, all, TRUE, <<Fix(2, 1)>>),
           SolverSection(9, 7, 7, "Lab", 2, all, TRUE,
                         <<Fix(2, 1), Fix(4, 3)>>) >>

\* One or two lines of the pool, in pool order.
SectionLists(ts) ==
    {<<SectionPool(ts)[i]>> : i \in DOMAIN SectionPool(ts)} \cup
    UNION {{<<SectionPool(ts)[i], SectionPool(ts)[j]>> :
               j \in {k \in DOMAIN SectionPool(ts) : k > i}} :
              i \in DOMAIN SectionPool(ts)}

\* A lecture of MaxPeriods periods over two days, alone or with another
\* lecture of its student group, in one or two lecture rooms.  Over
\* WeekSlots the third Monday slot is a lunch start, which only the CP
\* path may use; over MorningSlots all three Monday slots are open to
\* both solvers, so the daily limit alone keeps a third period off Monday.
LongInputs ==
    LET long == SolverSection(3, 3, 3, "Lecture", MaxPeriods,
                              <<1, 2, 3, 4>>, FALSE, <<>>)
        other == SolverSection(5, 3, 5, "Lecture", 1, <<1, 2, 3, 4>>,
                               FALSE, <<>>)
    IN  {[sections |-> secs, rooms |-> rs, timeslots |-> ts] :
            ts \in {WeekSlots, MorningSlots},
            secs \in {<<long>>, <<long, other>>},
            rs \in {<< SolverRoom(1, "Lecture") >>,
                    << SolverRoom(1, "Lecture"), SolverRoom(3, "Lecture") >>}}

\* Requirements that may use only some of the slots: a lab allowed in the
\* first two of three slots, a lecture allowed in the second slot only, a
\* lecture pinned to a slot outside its allowed slots and a lecture pinned
\* to a lab room; one or two of them, in a lecture room and a lab room.
NarrowInputs ==
    LET pool == << SolverSection(4, 3, 4, "Lab", 2, <<1, 2>>, TRUE, <<>>),
                   SolverSection(1, 1, 1, "Lecture", 1, <<2>>, FALSE, <<>>),
                   SolverSection(6, 4, 6, "Lecture", 1, <<1, 2>>, FALSE,
                                 <<Fix(1, 3)>>),
                   SolverSection(7, 5, 4, "Lecture", 1, <<1, 2, 3>>, FALSE,
                                 <<Fix(2, 1)>>) >>
        pairs == {<<pool[i], pool[j]>> : i, j \in DOMAIN pool}
        lists == {<<pool[i]>> : i \in DOMAIN pool}
                 \cup {l \in pairs : l[1].id < l[2].id}
    IN  {[sections |-> secs,
          rooms |-> << SolverRoom(1, "Lecture"), SolverRoom(2, "Lab") >>,
          timeslots |-> AllSlots] : secs \in lists}

Inputs ==
    LongInputs \cup NarrowInputs \cup
    UNION {{[sections |-> secs, rooms |-> rs, timeslots |-> ts] :
               secs \in SectionLists(ts), rs \in RoomLists} : ts \in SlotLists}

\* The calls made before the last one of a run: a feasible input with one
\* solution, an infeasible one (one faculty, two lines, one slot), and one
\* that ends in an early return (a lab without a lab room).
PriorInputs ==
    LET ts == SubSeq(AllSlots, 1, 1)
    IN  { [sections |-> <<SectionPool(ts)[1]>>,
           rooms |-> << SolverRoom(1, "Lecture") >>, timeslots |-> ts],
          [sections |-> <<SectionPool(ts)[1], SectionPool(ts)[2]>>,
           rooms |-> << SolverRoom(1, "Lecture"), SolverRoom(3, "Lecture") >>,
           timeslots |-> ts],
          [sections |-> <<SectionPool(ts)[4]>>,
           rooms |-> << SolverRoom(1, "Lecture") >>, timeslots |-> ts] }

\* The sequences of calls made on one SolverService instance.
Plans ==
    UNION {{prior \o <<i>> : prior \in [1..n -> PriorInputs], i \in Inputs} :
              n \in 0..(MaxCalls - 1)}

(***************************************************************************)
(* SolverService.solve                                                     *)
(***************************************************************************)

\* What one call adds to self.model and what step 3 can read back from it:
\* early is the C1 loop returning before the constraints are complete.
CpOutcome(inp) ==
    IF EarlyReturn(inp) # <<0, 0>>
    THEN [early |-> TRUE, reason |-> EarlyReason(inp), lists |-> {}]
    ELSE [early |-> FALSE, reason |-> NoReason,
          lists |-> {CpAssignments(inp, V) : V \in CpSolutions(inp)}]

\* Whether every constraint held by self.model can be met: each call adds
\* its constraints over variables of its own (NewBoolVar), so the model is
\* held as one flag per call, the satisfiability of what that call added.
ModelSat(model) == \A i \in DOMAIN model : model[i]

\* The CP path of solve on an instance whose model is `model`: the model
\* afterwards and the results the call can return.  The early returns
\* leave only pins and non-empty sums behind, which can always be met.
SolveCpOutcome(model, inp, out) ==
    LET after == Append(model, out.early \/ out.lists # {})
    IN  IF out.early
        THEN {[model |-> after,
               result |-> SolverResult(FALSE, "INFEASIBLE", <<>>,
                                       out.reason)]}
        ELSE IF ModelSat(after)
        THEN {[model |-> after,
               result |-> SolverResult(TRUE, "FEASIBLE", l, NoReason)] :
                 l \in out.lists}
        ELSE {[model |-> after,
               result |-> SolverResult(FALSE, "INFEASIBLE", <<>>,
                      [msg |-> "Conflicts detected (No solution found)",
                       section |-> 0, period |-> 0])]}

SolveCp(model, inp) == SolveCpOutcome(model, inp, CpOutcome(inp))

\* solve: the fallback when OR-Tools did not import, the CP path otherwise.
\* The set of (model afterwards, SolverResult) pairs the call can end in.
solve(avail, model, inp) ==
    IF ~avail
    THEN {[model |-> model, result |-> _solve_fallback(inp)]}
    ELSE SolveCp(model, inp)

\* Indices of the placements of requirement sec_id in a result list.
PlacedAt(a, sec_id) == {i \in DOMAIN a : a[i].section_id = sec_id}

(***************************************************************************)
(* The database read and written by TimetableManager.generate_timetable,   *)
(* ImportService.process_assignments and scripts/generate.py.  Every       *)
(* db.commit() is a step of its own: what it publishes is what the other   *)
(* sessions read.                                                          *)
(***************************************************************************)

MaxRuns == 2

MaxVersion == 2

\* sections, courses, rooms and timeslots tables; generate_timetable only
\* reads them.  A NULL shift is "".
SectionTable ==
    << [id |-> 1, code |-> "S1", shift |-> "SHIFT_8_4", student_count |-> 40],
       [id |-> 2, code |-> "S2", shift |-> "", student_count |-> 60],
       [id |-> 3, code |-> "S3", shift |-> "SHIFT_10_6",
        student_count |-> 20] >>

CourseTable ==
    << [id |-> 1, code |-> "C1", type |-> "LECTURE", credits |-> 2,
        needs_room_type |-> "LECTURE"],
       [id |-> 2, code |-> "C2", type |-> "Lecture", credits |-> 1,
        needs_room_type |-> "LECTURE"],
       [id |-> 3, code |-> "C3", type |-> "Lab", credits |-> 1,
        needs_room_type |-> "LAB"] >>

\* The faculty table: id, name and email are its only columns.
FacultyTable ==
    << [id |-> 1, name |-> "Dr. A", email |-> "a@college.edu"],
       [id |-> 2, name |-> "Dr. B", email |-> "b@college.edu"] >>

RoomTable ==
    << [id |-> 1, type |-> "LECTURE", capacity |-> 50],
       [id |-> 2, type |-> "LAB", capacity |-> 30] >>

\* Monday 09-10, 10-11, 11-12, 12-13 and Saturday 09-10; times in minutes.
TimeslotTable ==
    << [id |-> 1, day |-> 0, start_time |-> 9 * 60, end_time |-> 10 * 60],
       [id |-> 2, day |-> 0, start_time |-> 10 * 60, end_time |-> 11 * 60],
       [id |-> 3, day |-> 0, start_time |-> 11 * 60, end_time |-> 12 * 60],
       [id |-> 4, day |-> 0, start_time |-> 12 * 60, end_time |-> 13 * 60],
       [id |-> 5, day |-> 5, start_time |-> 9 * 60, end_time |-> 10 * 60] >>

RowById(table, id) == table[MaxOf({i \in DOMAIN table : table[i].id = id})]

\* One row of the assignments table.
Assignment(id, section_id, faculty_id, course_id, room_id, timeslot_id) ==
    [id |-> id, section_id |-> section_id, faculty_id |-> faculty_id,
     course_id |-> course_id, room_id |-> room_id,
     timeslot_id |-> timeslot_id]

\* Rows the assignments table can hold: section_id, faculty_id, course_id,
\* room_id and timeslot_id are NOT NULL foreign keys, so every stored
\* requirement has a room and a timeslot.
StoredPool ==
    << [section_id |-> 1, faculty_id |-> 1, course_id |-> 1, room_id |-> 1,
        timeslot_id |-> 2],
       [section_id |-> 2, faculty_id |-> 2, course_id |-> 2, room_id |-> 1,
        timeslot_id |-> 1],
       [section_id |-> 3, faculty_id |-> 1, course_id |-> 3, room_id |-> 2,
        timeslot_id |-> 3] >>

StoredRows(picked) ==
    [i \in DOMAIN picked |->
        Assignment(i, picked[i].section_id, picked[i].faculty_id,
                   picked[i].course_id, picked[i].room_id,
                   picked[i].timeslot_id)]

\* A two-credit lecture for the section without shift, which has four
\* Monday slots.
WideTable ==
    StoredRows(<<[section_id |-> 2, faculty_id |-> 2, course_id |-> 1,
                  room_id |-> 1, timeslot_id |-> 1]>>)

\* The assignments table before the first call: empty, one requirement, or
\* the first requirement of the pool with another one.
StoredTables ==
    {<<>>, WideTable}
    \cup {StoredRows(<<StoredPool[i]>>) : i \in DOMAIN StoredPool}
    \cup {StoredRows(<<StoredPool[1], StoredPool[j]>>) :
             j \in {k \in DOMAIN StoredPool : k > 1}}

\* target_section_names: None (held as {}) or a list of section codes.
TargetChoices == {{}, {"S2"}}

\* str.upper() on the course types in use.
Upper(str) ==
    IF str \in {"Lab", "lab", "LAB"} THEN "LAB"
    ELSE IF str \in {"Lecture", "lecture", "LECTURE"} THEN "LECTURE"
    ELSE str

\* str(datetime.time): "HH:MM:SS" with zero seconds, held as HHMM.
TimeStr(minutes) == (minutes \div 60) * 100 + (minutes % 60)

\* The mutant of AllowedSlotsOf: the lunch slot is not removed.
AllowedSlotsKeepingLunch(timeslots, shift) ==
    LET InShift(t) ==
            /\ t.day <= 4
            /\ IF shift = "SHIFT_8_4"
               THEN t.start_time >= 8 * 60 /\ t.end_time <= 16 * 60
               ELSE IF shift = "SHIFT_10_6"
               THEN t.start_time >= 10 * 60 /\ t.end_time <= 18 * 60
               ELSE TRUE
        kept == SelectSeq(timeslots, InShift)
    IN  [i \in DOMAIN kept |-> kept[i].id]

\* Step 3, shift resolution and lunch removal: the allowed_slots list built
\* from the rows of the timeslots table for a section with this shift.
AllowedSlotsOf(timeslots, shift) ==
    LET InShift(t) ==
            /\ t.day <= 4
            /\ IF shift = "SHIFT_8_4"
               THEN t.start_time >= 8 * 60 /\ t.end_time <= 16 * 60
               ELSE IF shift = "SHIFT_10_6"
               THEN t.start_time >= 10 * 60 /\ t.end_time <= 18 * 60
               ELSE TRUE
        lunch_time == IF shift = "SHIFT_8_4" THEN 12 * 60
                      ELSE IF shift = "SHIFT_10_6" THEN 13 * 60
                      ELSE 0 - 1
        kept == SelectSeq(timeslots,
                    LAMBDA t : InShift(t) /\ t.start_time # lunch_time)
    IN  [i \in DOMAIN kept |-> kept[i].id]

\* The same, on the timeslots table of the database part.
AllowedSlots(shift) == AllowedSlotsOf(TimeslotTable, shift)

\* Timeslot rows for the shift resolution: Monday 07-08, 08-09, 09:30-10:30,
\* 12-13, 13-14, 15-16, 15:30-16:30, Friday 17-18, 18-19, Saturday 10-11.
SlotRowPool ==
    << [id |-> 1, day |-> 0, start_time |-> 7 * 60, end_time |-> 8 * 60],
       [id |-> 2, day |-> 0, start_time |-> 8 * 60, end_time |-> 9 * 60],
       [id |-> 3, day |-> 0, start_time |-> 9 * 60 + 30,
        end_time |-> 10 * 60 + 30],
       [id |-> 4, day |-> 0, start_time |-> 12 * 60, end_time |-> 13 * 60],
       [id |-> 5, day |-> 0, start_time |-> 13 * 60, end_time |-> 14 * 60],
       [id |-> 6, day |-> 0, start_time |-> 15 * 60, end_time |-> 16 * 60],
       [id |-> 7, day |-> 0, start_time |-> 15 * 60 + 30,
        end_time |-> 16 * 60 + 30],
       [id |-> 8, day |-> 4, start_time |-> 17 * 60, end_time |-> 18 * 60],
       [id |-> 9, day |-> 4, start_time |-> 18 * 60, end_time |-> 19 * 60],
       [id |-> 10, day |-> 5, start_time |-> 10 * 60, end_time |-> 11 * 60] >>

\* The timeslots tables: any rows of the pool, in id order.
SlotTables ==
    {SelectSeq(SlotRowPool, LAMBDA t : t.id \in ids) :
        ids \in SUBSET {SlotRowPool[i].id : i \in DOMAIN SlotRowPool}}

\* Section.shift: the two named shifts, another value, or none (held as "").
ShiftValues == {"SHIFT_8_4", "SHIFT_10_6", "MORN", ""}

\* Step 2: the rows that are not targets of a partial generation.
IsFixedRow(a, targets) ==
    targets # {} /\ RowById(SectionTable, a.section_id).code \notin targets

\* Step 3: one SolverSection per row of the assignments table.
ToSolverSection(a, targets) ==
    LET s_model == RowById(SectionTable, a.section_id)
        c_model == RowById(CourseTable, a.course_id)
        is_lab  == Upper(c_model.type) = "LAB"
    IN  SolverSection(a.id, s_model.id, a.faculty_id,
            c_model.needs_room_type,
            IF is_lab THEN 2 ELSE c_model.credits,
            AllowedSlots(s_model.shift), is_lab,
            IF IsFixedRow(a, targets) /\ a.room_id # 0 /\ a.timeslot_id # 0
            THEN <<Fix(a.room_id, a.timeslot_id)>> ELSE <<>>)

SolverInput(all_assignments, targets) ==
    [sections |-> [i \in DOMAIN all_assignments |->
                      ToSolverSection(all_assignments[i], targets)],
     rooms |-> [i \in DOMAIN RoomTable |->
                  SolverRoom(RoomTable[i].id, RoomTable[i].type)],
     timeslots |-> [i \in DOMAIN TimeslotTable |->
                      SolverTimeslot(TimeslotTable[i].id, TimeslotTable[i].day,
                          TimeStr(TimeslotTable[i].start_time),
                          TimeStr(TimeslotTable[i].end_time))]]

\* Step 5, full generation: every row deleted, one new row per placement
\* with the next ids of the sequence.
FullSave(all_assignments, allocs, first_id) ==
    [k \in DOMAIN allocs |->
        LET orig == RowById(all_assignments, allocs[k].section_id)
        IN  Assignment(first_id + k - 1, orig.section_id, orig.faculty_id,
                       orig.course_id, allocs[k].room_id,
                       allocs[k].timeslot_id)]

\* Step 5, partial generation: each placement is written to the row it
\* names, so a row read at step 1 ends with the last placement listed for
\* it.
FinalRow(orig, allocs) ==
    LET mine == PlacedAt(allocs, orig.id)
    IN  IF mine = {} THEN orig
        ELSE [orig EXCEPT !.room_id = allocs[MaxOf(mine)].room_id,
                          !.timeslot_id = allocs[MaxOf(mine)].timeslot_id]

\* The rows read at step 1 whose room or timeslot step 5 changed: the
\* commit sends one UPDATE ... WHERE id = ... for each.
DirtyRows(all_assignments, allocs) ==
    {i \in DOMAIN all_assignments :
        FinalRow(all_assignments[i], allocs) # all_assignments[i]}

\* An UPDATE of a row that is no longer in the table matches no row.
StaleRows(table, all_assignments, allocs) ==
    {i \in DirtyRows(all_assignments, allocs) :
        \A j \in DOMAIN table : table[j].id # all_assignments[i].id}

\* The table after the UPDATEs of the commit at the end of step 5; an
\* UPDATE sets the columns whose value the call changed.
PartialSave(table, all_assignments, allocs) ==
    [j \in DOMAIN table |->
        LET hit == {i \in DirtyRows(all_assignments, allocs) :
                       all_assignments[i].id = table[j].id}
            orig  == all_assignments[MaxOf(hit)]
            final == FinalRow(orig, allocs)
        IN  IF hit = {} THEN table[j]
            ELSE [table[j] EXCEPT
                    !.room_id = IF final.room_id # orig.room_id
                                THEN final.room_id ELSE @,
                    !.timeslot_id = IF final.timeslot_id # orig.timeslot_id
                                    THEN final.timeslot_id ELSE @]]

\* Step 6: the row added to timetable_versions, with the id its sequence
\* gives it.
TimetableVersion(id, version_number, status) ==
    [id |-> id, version_number |-> version_number, is_published |-> FALSE,
     status |-> status]

NoCall ==
    [outcome |-> "none", version_number |-> 0, targets |-> {},
     before |-> <<>>, versions_before |-> <<>>, after |-> <<>>,
     versions_after |-> <<>>]

\* A database session that is not inside generate_timetable.
IdleSession ==
    [pc |-> "idle", version_number |-> 0, targets |-> {},
     all_assignments |-> <<>>, versions_before |-> <<>>, allocs |-> <<>>,
     status |-> "", version_id |-> 0]

\* The processes that can run generate_timetable at the same time.
Sessions == {"A", "B"}

NoSessions == [s \in Sessions |-> IdleSession]

(***************************************************************************)
(* NormalizationAgent (services/normalization_agent.py)                    *)
(*                                                                         *)
(* A name is a Python str.  str.strip, str.lower and len are tabulated on  *)
(* the names used here.  The agent only compares fuzz.token_set_ratio with *)
(* similarity_threshold: `similar` is the set of unordered pairs of        *)
(* lowercased names whose ratio reaches the threshold.                     *)
(***************************************************************************)

\* str.strip()
strip(name) ==
    CASE name = " Rao" -> "Rao"
      [] name = " "    -> ""
      [] OTHER         -> name

\* str.lower()
lower(name) ==
    CASE name = "Rao"      -> "rao"
      [] name = "A Rao"    -> "a rao"
      [] name = "K Rao"    -> "k rao"
      [] name = "Dr A Rao" -> "dr a rao"
      [] name = " Rao"     -> " rao"
      [] name = "DBMS"     -> "dbms"
      [] name = "Dbms Lab" -> "dbms lab"
      [] OTHER             -> name

\* len()
len(name) ==
    CASE name = ""                       -> 0
      [] name = " "                      -> 1
      [] name \in {"Rao", "rao"}         -> 3
      [] name \in {" Rao", "DBMS"}       -> 4
      [] name \in {"A Rao", "K Rao"}     -> 5
      [] name \in {"Dr A Rao", "Dbms Lab"} -> 8

NormalizationRequest(faculty_names, course_names) ==
    [faculty_names |-> faculty_names, course_names |-> course_names]

NormalizationSuggestion(cluster_id, names, canonical, confidence, etype) ==
    [cluster_id |-> cluster_id, detected_names |-> names,
     suggested_canonical |-> canonical, confidence |-> confidence,
     status |-> "pending_confirmation", entity_type |-> etype]

RECURSIVE CleanFrom(_, _, _, _)
CleanFrom(names, i, cleaned, seen) ==
    IF i > Len(names) THEN cleaned
    ELSE LET stripped == strip(names[i])
         IN  IF names[i] = "" \/ stripped = "" \/ lower(stripped) \in seen
             THEN CleanFrom(names, i + 1, cleaned, seen)
             ELSE CleanFrom(names, i + 1, Append(cleaned, stripped),
                            seen \cup {lower(stripped)})

\* _clean_names: strip, drop empty names, keep the first of the names that
\* are equal in lower case.
_clean_names(names) == CleanFrom(names, 1, <<>>, {})

\* _calculate_similarity(name1, name2) >= self.similarity_threshold; the
\* ratio of two names equal in lower case is 100.
SimilarEnough(sim, name1, name2) ==
    \/ lower(name1) = lower(name2)
    \/ {lower(name1), lower(name2)} \in sim

\* ClusterOf without the test `if name2 in used: continue`.
ClusterIgnoringUsed(sim, cleaned, i, used) ==
    LET Joins(name2) == SimilarEnough(sim, cleaned[i], name2)
    IN  <<cleaned[i]>> \o SelectSeq(SubSeq(cleaned, i + 1, Len(cleaned)), Joins)

\* The cluster seeded by cleaned[i]: the seed and every later unused name
\* similar to the seed.
ClusterOf(sim, cleaned, i, used) ==
    LET Joins(name2) == /\ name2 \notin used
                        /\ SimilarEnough(sim, cleaned[i], name2)
    IN  <<cleaned[i]>> \o SelectSeq(SubSeq(cleaned, i + 1, Len(cleaned)), Joins)

RECURSIVE ClustersFrom(_, _, _, _, _)
ClustersFrom(sim, cleaned, i, used, clusters) ==
    IF i > Len(cleaned) THEN clusters
    ELSE IF cleaned[i] \in used
         THEN ClustersFrom(sim, cleaned, i + 1, used, clusters)
         ELSE LET cluster == ClusterOf(sim, cleaned, i, used)
              IN  ClustersFrom(sim, cleaned, i + 1, used \cup Range(cluster),
                               IF Len(cluster) > 1 THEN Append(clusters, cluster)
                               ELSE clusters)

\* detect_similar_names: greedy single pass, singletons are not returned.
detect_similar_names(sim, names) ==
    ClustersFrom(sim, _clean_names(names), 1, {}, <<>>)

\* _suggest_canonical_name taking the last of the longest names.
CanonicalLastLongest(cluster) ==
    LET longest == MaxOf({len(cluster[i]) : i \in DOMAIN cluster})
    IN  cluster[MaxOf({i \in DOMAIN cluster : len(cluster[i]) = longest})]

\* _suggest_canonical_name: max(cluster, key=len), the first longest name.
_suggest_canonical_name(cluster) ==
    LET longest == MaxOf({len(cluster[i]) : i \in DOMAIN cluster})
    IN  cluster[MinOf({i \in DOMAIN cluster : len(cluster[i]) = longest})]

\* _calculate_confidence without the cap.
ConfidenceUncapped(cluster) == 70 + Len(cluster) * 10

\* _calculate_confidence, in hundredths as to_dict reports it
\* (round(confidence, 2)): min(0.95, 0.7 + len(cluster) * 0.1)
_calculate_confidence(cluster) ==
    MinOf({95, 70 + Len(cluster) * 10})

\* The suggestions analyze builds from the clusters of one entity type.
SuggestionsOf(clusters, etype) ==
    [i \in DOMAIN clusters |->
        NormalizationSuggestion(i - 1, clusters[i],
                                _suggest_canonical_name(clusters[i]),
                                _calculate_confidence(clusters[i]), etype)]

analyze(sim, request) ==
    [faculty_suggestions |->
        SuggestionsOf(detect_similar_names(sim, request.faculty_names), "faculty"),
     course_suggestions |->
        SuggestionsOf(detect_similar_names(sim, request.course_names), "course")]

\* dict.get(cluster_id, "rejected")
ConfirmationGet(confirmations, cluster_id) ==
    IF cluster_id \in DOMAIN confirmations THEN confirmations[cluster_id]
    ELSE "rejected"

\* str.lower() of a confirmation value
StatusLower(status) ==
    IF status = "ACCEPTED" THEN "accepted" ELSE status

\* mapping[original_name] = canonical for every name of the cluster
MapCluster(mapping, names, canonical) ==
    [n \in DOMAIN mapping \cup Range(names) |->
        IF n \in Range(names) THEN canonical ELSE mapping[n]]

RECURSIVE ApplyFrom(_, _, _, _)
ApplyFrom(suggestions, confirmations, i, mapping) ==
    IF i > Len(suggestions) THEN mapping
    ELSE LET s == suggestions[i]
             st == ConfirmationGet(confirmations, s.cluster_id)
         IN  ApplyFrom(suggestions, confirmations, i + 1,
                       IF StatusLower(st) = "accepted"
                       THEN MapCluster(mapping, s.detected_names,
                                       s.suggested_canonical)
                       ELSE mapping)

\* apply_confirmations with confirmations.get(cluster_id, "accepted").
ApplyAbsentAccepted(suggestions, confirmations) ==
    LET ids == {suggestions[k].cluster_id : k \in DOMAIN suggestions}
    IN  ApplyFrom(suggestions,
                  [i \in DOMAIN confirmations \cup ids |->
                      IF i \in DOMAIN confirmations THEN confirmations[i]
                      ELSE "accepted"], 1, <<>>)

apply_confirmations(suggestions, confirmations) ==
    ApplyFrom(suggestions, confirmations, 1, <<>>)

finalize_mapping(response, faculty_confirmations, course_confirmations, version) ==
    [faculty_mapping |->
        apply_confirmations(response.faculty_suggestions, faculty_confirmations),
     course_mapping |->
        apply_confirmations(response.course_suggestions, course_confirmations),
     version |-> version]

\* The call site's use of a final mapping: a name that is a key is replaced
\* by its canonical name, any other name passes through unchanged.
RewriteNames(names, mapping) ==
    [i \in DOMAIN names |->
        IF names[i] \in DOMAIN mapping THEN mapping[names[i]] ELSE names[i]]

\* Inputs of the normalization endpoints.
MaxNames == 3

MaxRewrites == 1

NamePool == {"", "Rao", "rao", " Rao", "A Rao", "K Rao", "Dr A Rao"}

NameLists == UNION {[1..n -> NamePool] : n \in 0..MaxNames}

CourseLists == {<<>>, <<"DBMS", "Dbms Lab">>}

Requests ==
    {NormalizationRequest(f, c) : f \in NameLists, c \in CourseLists}

\* The pairs of names of one list that token_set_ratio is asked about.
PairsIn(names) ==
    LET ls == {lower(n) : n \in Range(_clean_names(names))}
    IN  {{a, b} : a \in ls, b \in ls} \ {{a} : a \in ls}

SimilarityRelations(req) ==
    SUBSET (PairsIn(req.faculty_names) \cup PairsIn(req.course_names))

StatusValues == {"accepted", "rejected", "ACCEPTED"}

\* The confirmations a user can send for a list of suggestions: a status
\* for some of the clusters, none for the others.
ConfirmationChoices(suggestions) ==
    LET ids == {suggestions[k].cluster_id : k \in DOMAIN suggestions}
    IN  UNION {[D -> StatusValues] : D \in SUBSET ids}

NoRequest == NormalizationRequest(<<>>, <<>>)

NoResponse == [faculty_suggestions |-> <<>>, course_suggestions |-> <<>>]

NoConfirmations == [faculty |-> <<>>, course |-> <<>>]

NoMapping == [faculty_mapping |-> <<>>, course_mapping |-> <<>>, version |-> 0]

(***************************************************************************)
(* DataIntegrityVerifier (services/data_integrity_verifier.py)             *)
(*                                                                         *)
(* A row is a dict of strings; a column the row does not have is read as   *)
(* None by dict.get.                                                       *)
(***************************************************************************)

None == "<None>"

\* bool(value) is False: None and the empty string
Falsy(value) == value \in {None, ""}

\* a or b
Or(a, b) == IF Falsy(a) THEN b ELSE a

\* A QualityMetrics with the defaults of the fields the caller does not set;
\* completeness_percent is the fraction num / den.
QualityMetrics(entity, total, issues, num, den) ==
    [entity |-> entity, total_records |-> total, duplicates_count |-> 0,
     missing_fields |-> <<>>, orphan_records |-> <<>>, issues |-> issues,
     completeness_percent |-> [num |-> num, den |-> den]]

FacultyRow(id, faculty_id, email) ==
    [id |-> id, faculty_id |-> faculty_id, email |-> email]

CourseRow(code, course_id) == [code |-> code, course_id |-> course_id]

SectionRow(id, section_id) == [id |-> id, section_id |-> section_id]

\* A row of faculty_course_map, with the columns validator.py accepts.
MapRow(fid, femail, fcode, cid, ccode, sid, scode, sec) ==
    [faculty_id |-> fid, faculty_email |-> femail, faculty_code |-> fcode,
     course_id |-> cid, course_code |-> ccode,
     section_id |-> sid, code |-> scode, section |-> sec]

Issue(kind, ref) == [kind |-> kind, ref |-> ref]

\* The references the loop appends for one mapping row, in order.
BrokenRefsOf(m, faculty_ids, course_codes, section_ids) ==
    LET f_id == Or(m.faculty_id, m.faculty_email)
        c_code == m.course_id
        s_id == m.section_id
    IN  (IF ~Falsy(f_id) /\ f_id \notin faculty_ids
         THEN <<Issue("Unknown faculty", f_id)>> ELSE <<>>)
        \o (IF ~Falsy(c_code) /\ c_code \notin course_codes
            THEN <<Issue("Unknown course", c_code)>> ELSE <<>>)
        \o (IF ~Falsy(s_id) /\ s_id \notin section_ids
            THEN <<Issue("Unknown section", s_id)>> ELSE <<>>)

RECURSIVE BrokenRefsFrom(_, _, _, _, _)
BrokenRefsFrom(mappings, i, faculty_ids, course_codes, section_ids) ==
    IF i > Len(mappings) THEN <<>>
    ELSE BrokenRefsOf(mappings[i], faculty_ids, course_codes, section_ids)
         \o BrokenRefsFrom(mappings, i + 1, faculty_ids, course_codes,
                           section_ids)

verify_mappings(d) ==
    LET mappings == d.faculty_course_map
        faculty_ids == {Or(f.id, f.faculty_id) : f \in
                          {g \in Range(d.faculty) : ~Falsy(Or(g.id, g.faculty_id))}}
        course_codes == {Or(c.code, c.course_id) : c \in
                          {g \in Range(d.courses) : ~Falsy(Or(g.code, g.course_id))}}
        section_ids == {Or(s.id, s.section_id) : s \in
                          {g \in Range(d.sections) : ~Falsy(Or(g.id, g.section_id))}}
        broken_refs == BrokenRefsFrom(mappings, 1, faculty_ids, course_codes,
                                      section_ids)
    IN  IF mappings = <<>>
        THEN QualityMetrics("mappings", 0, <<>>, 0, 1)
        ELSE QualityMetrics("mappings", Len(mappings),
                            SubSeq(broken_refs, 1, MinOf({5, Len(broken_refs)})),
                            (Len(mappings) - Len(broken_refs)) * 100,
                            Len(mappings))

\* Inputs of the verifier.
MaxMapRows == 2

FacultyTables ==
    {<<FacultyRow("F001", None, "smith@college.edu")>>,
     <<FacultyRow(None, "F001", "smith@college.edu")>>}

CourseTables == {<<CourseRow("CS101", None)>>}

SectionTables == {<<SectionRow("S1", None)>>}

MapRowPool ==
    {MapRow("F001", None, None, "CS101", None, "S1", None, None),
     MapRow("UNKNOWN", None, None, "CS101", None, "S1", None, None),
     MapRow("F001", None, None, "CS999", None, "S1", None, None),
     MapRow("F001", None, None, "CS101", None, "S9", None, None),
     MapRow("UNKNOWN", None, None, "CS999", None, "S9", None, None),
     MapRow(None, "smith@college.edu", None, "CS101", None, "S1", None, None),
     MapRow(None, "nobody@college.edu", None, "CS101", None, "S1", None, None),
     MapRow(None, None, "F001", None, "CS101", None, None, "S1"),
     MapRow(None, None, "UNKNOWN", None, "CS101", None, "S1", None),
     MapRow("F001", None, None, None, "CS999", "S1", None, None),
     MapRow("F001", None, None, "CS101", None, None, "S9", None)}

MapRowLists == UNION {[1..n -> MapRowPool] : n \in 0..MaxMapRows}

VerifierData ==
    {[faculty |-> f, courses |-> c, sections |-> s, faculty_course_map |-> m] :
        f \in FacultyTables, c \in CourseTables, s \in SectionTables,
        m \in MapRowLists}

NoData ==
    [faculty |-> <<>>, courses |-> <<>>, sections |-> <<>>,
     faculty_course_map |-> <<>>]

NoMetrics == QualityMetrics("none", 0, <<>>, 0, 1)

\* ---- The upload: ValidatorService.validate_structure and verify_all ----

\* The value of a numeric column the row does not have.
NoInt == 0 - 1000

IntColumns == {"credits", "weekly_periods", "capacity", "student_count"}

\* Rows of the uploaded files, with the columns the validator and the
\* verifier read.  A column the row lacks holds None (NoInt if numeric).
FacultyRecord(id, faculty_id, code, name, email) ==
    [id |-> id, faculty_id |-> faculty_id, code |-> code, name |-> name,
     email |-> email]

CourseRecord(code, course_id, name, credits, weekly_periods, needs) ==
    [code |-> code, course_id |-> course_id, name |-> name,
     credits |-> credits, weekly_periods |-> weekly_periods,
     needs_room_type |-> needs]

RoomRecord(room_id, code, capacity, room_type, type) ==
    [room_id |-> room_id, code |-> code, capacity |-> capacity,
     room_type |-> room_type, type |-> type]

SectionRecord(id, section_id, code, student_count) ==
    [id |-> id, section_id |-> section_id, code |-> code,
     student_count |-> student_count]

Message(kind, ref) == [kind |-> kind, ref |-> ref]

ValidationResult(is_valid, errors, warnings, suggestions) ==
    [is_valid |-> is_valid, errors |-> errors, warnings |-> warnings,
     suggestions |-> suggestions]

REQUIRED_HEADERS ==
    <<[entity |-> "faculty",
       header_groups |-> << <<"id", "faculty_id", "code">>, <<"name">> >>],
      [entity |-> "courses",
       header_groups |-> << <<"code", "course_id">>, <<"name">>,
                            <<"credits", "weekly_periods">> >>],
      [entity |-> "rooms",
       header_groups |-> << <<"room_id", "code">>, <<"capacity">>,
                            <<"room_type", "type">> >>],
      [entity |-> "sections",
       header_groups |-> << <<"id", "section_id", "code">>,
                            <<"student_count">> >>],
      [entity |-> "faculty_course_map",
       header_groups |-> << <<"faculty_email", "faculty_id", "faculty_code">>,
                            <<"section_id", "code", "section">>,
                            <<"course_id", "course_code">> >>]>>

\* name in row
HasColumn(row, name) ==
    IF name \in IntColumns THEN row[name] # NoInt ELSE row[name] # None

RECURSIVE FindFrom(_, _, _)
FindFrom(row, names, i) ==
    IF i > Len(names) THEN None
    ELSE IF HasColumn(row, names[i]) THEN names[i]
    ELSE FindFrom(row, names, i + 1)

_find_column(row, acceptable_names) == FindFrom(row, acceptable_names, 1)

\* The errors of one entity's first item: a header group with no column.
RECURSIVE MissingColumns(_, _, _, _)
MissingColumns(entity, first_item, header_groups, i) ==
    IF i > Len(header_groups) THEN <<>>
    ELSE (IF _find_column(first_item, header_groups[i]) = None
          THEN <<Message("missing mandatory column", <<entity, i>>)>>
          ELSE <<>>)
         \o MissingColumns(entity, first_item, header_groups, i + 1)

\* Step 1 for the entities from the i-th on: errors and warnings.
RECURSIVE StructureFrom(_, _)
StructureFrom(d, i) ==
    IF i > Len(REQUIRED_HEADERS) THEN [errors |-> <<>>, warnings |-> <<>>]
    ELSE LET h == REQUIRED_HEADERS[i]
             rest == StructureFrom(d, i + 1)
             items == d[h.entity]
         IN  IF h.entity \notin d.present
             THEN [errors |-> <<Message("Missing entity data", h.entity)>>
                              \o rest.errors,
                   warnings |-> rest.warnings]
             ELSE IF items = <<>>
             THEN [errors |-> rest.errors,
                   warnings |-> <<Message("data is empty", h.entity)>>
                                \o rest.warnings]
             ELSE [errors |-> MissingColumns(h.entity, items[1],
                                             h.header_groups, 1)
                              \o rest.errors,
                   warnings |-> rest.warnings]

\* The set built by a lookup loop: the value of the first column of names
\* that each row has.
ColumnValues(rows, names) ==
    {r[_find_column(r, names)] :
        r \in {q \in Range(rows) : _find_column(q, names) # None}}

\* The errors the reference loop appends for one mapping row.
MappingErrorsOf(mapping, faculty_emails, faculty_ids, section_ids) ==
    LET fac_col == _find_column(mapping, <<"faculty_email", "faculty_id">>)
        sec_col == _find_column(mapping, <<"section_id">>)
    IN  (IF fac_col # None /\ mapping[fac_col] \notin faculty_emails
            /\ mapping[fac_col] \notin faculty_ids
         THEN <<Message("unknown faculty", mapping[fac_col])>> ELSE <<>>)
        \o (IF sec_col # None /\ mapping[sec_col] \notin section_ids
            THEN <<Message("unknown section ID", mapping[sec_col])>>
            ELSE <<>>)

RECURSIVE MappingErrorsFrom(_, _, _, _, _)
MappingErrorsFrom(mappings, i, faculty_emails, faculty_ids, section_ids) ==
    IF i > Len(mappings) THEN <<>>
    ELSE MappingErrorsOf(mappings[i], faculty_emails, faculty_ids,
                         section_ids)
         \o MappingErrorsFrom(mappings, i + 1, faculty_emails, faculty_ids,
                              section_ids)

RECURSIVE RoomTypeWarningsFrom(_, _, _)
RoomTypeWarningsFrom(course_data, i, room_types) ==
    IF i > Len(course_data) THEN <<>>
    ELSE (IF HasColumn(course_data[i], "needs_room_type")
             /\ course_data[i].needs_room_type \notin room_types
          THEN <<Message("no such room", course_data[i].needs_room_type)>>
          ELSE <<>>)
         \o RoomTypeWarningsFrom(course_data, i + 1, room_types)

\* The orders in which a loop over a Python set can visit its members.
Orders(S) ==
    {o \in [1..Cardinality(S) -> S] : \A i, j \in DOMAIN o :
                                         o[i] = o[j] => i = j}

\* validate_structure(data): the results it can return.  The warnings for
\* unmapped sections come from iterating a set of strings, in any order.
validate_structure(d) ==
    LET structure == StructureFrom(d, 1)
        faculty_emails == ColumnValues(d.faculty, <<"email">>)
        faculty_ids == ColumnValues(d.faculty, <<"id", "faculty_id">>)
        course_codes == ColumnValues(d.courses, <<"code", "course_id">>)
        section_ids == ColumnValues(d.sections, <<"id", "section_id">>)
        room_types == ColumnValues(d.rooms, <<"room_type", "type">>)
        errors == MappingErrorsFrom(d.faculty_course_map, 1, faculty_emails,
                                    faculty_ids, section_ids)
        mapped_section_ids == ColumnValues(d.faculty_course_map,
                                           <<"section_id">>)
        unmapped == section_ids \ mapped_section_ids
        suggestions == IF 5 * Len(d.rooms) < Len(d.sections)
                       THEN <<Message("Low room-to-section ratio", "")>>
                       ELSE <<>>
    IN  IF structure.errors # <<>>
        THEN {ValidationResult(FALSE, structure.errors, structure.warnings,
                               <<>>)}
        ELSE {ValidationResult(errors = <<>>, errors,
                  structure.warnings
                  \o RoomTypeWarningsFrom(d.courses, 1, room_types)
                  \o [i \in DOMAIN o |-> Message("no courses assigned", o[i])],
                  suggestions) : o \in Orders(unmapped)}

\* Counter(ids): the number of values that occur more than once.
Duplicates(ids) ==
    Cardinality({v \in Range(ids) :
                    Cardinality({i \in DOMAIN ids : ids[i] = v}) > 1})

\* The ids a verify loop collects: the truthy ones, in row order.
RECURSIVE TruthyFrom(_, _)
TruthyFrom(values, i) ==
    IF i > Len(values) THEN <<>>
    ELSE (IF Falsy(values[i]) THEN <<>> ELSE <<values[i]>>)
         \o TruthyFrom(values, i + 1)

\* The metrics of an entity with `bad` incomplete rows out of all its rows.
EntityMetrics(entity, rows, ids, field, bad, orphans, issue) ==
    [QualityMetrics(entity, Len(rows),
                    IF bad > 0 THEN <<Message(issue, bad)>> ELSE <<>>,
                    (Len(rows) - bad) * 100, Len(rows))
        EXCEPT !.duplicates_count = Duplicates(TruthyFrom(ids, 1)),
               !.missing_fields = IF bad > 0 /\ field # None
                                  THEN <<[field |-> field, count |-> bad]>>
                                  ELSE <<>>,
               !.orphan_records = orphans]

verify_faculty(faculty_data) ==
    LET ids == [i \in DOMAIN faculty_data |->
                   Or(faculty_data[i].id, faculty_data[i].faculty_id)]
        f_name(f) == IF f.name = None THEN "" ELSE strip(f.name)
        empty_names == Cardinality({i \in DOMAIN faculty_data :
                                       f_name(faculty_data[i]) = ""})
    IN  IF faculty_data = <<>> THEN QualityMetrics("faculty", 0, <<>>, 0, 1)
        ELSE EntityMetrics("faculty", faculty_data, ids, "name", empty_names,
                           <<>>, "faculty with empty names")

\* int(c.get("credits") or c.get("weekly_periods", 0))
CreditsOf(c) ==
    IF c.credits \in {NoInt, 0}
    THEN (IF c.weekly_periods = NoInt THEN 0 ELSE c.weekly_periods)
    ELSE c.credits

verify_courses(course_data) ==
    LET codes == [i \in DOMAIN course_data |->
                     Or(course_data[i].code, course_data[i].course_id)]
        invalid_credits == Cardinality({i \in DOMAIN course_data :
                                           CreditsOf(course_data[i]) <= 0})
    IN  IF course_data = <<>> THEN QualityMetrics("courses", 0, <<>>, 0, 1)
        ELSE EntityMetrics("courses", course_data, codes, "credits",
                           invalid_credits, <<>>,
                           "courses with invalid credits")

\* int(r.get("capacity", 0))
CapacityOf(r) == IF r.capacity = NoInt THEN 0 ELSE r.capacity

verify_rooms(room_data) ==
    LET room_ids == [i \in DOMAIN room_data |-> room_data[i].room_id]
        invalid_capacity == Cardinality({i \in DOMAIN room_data :
                                            CapacityOf(room_data[i]) <= 0})
    IN  IF room_data = <<>> THEN QualityMetrics("rooms", 0, <<>>, 0, 1)
        ELSE EntityMetrics("rooms", room_data, room_ids, "capacity",
                           invalid_capacity, <<>>,
                           "rooms with invalid capacity")

\* int(s.get("student_count", 0))
StudentCountOf(s) == IF s.student_count = NoInt THEN 0 ELSE s.student_count

RECURSIVE EmptySectionsFrom(_, _)
EmptySectionsFrom(section_data, i) ==
    IF i > Len(section_data) THEN <<>>
    ELSE (IF StudentCountOf(section_data[i]) = 0
          THEN <<Or(section_data[i].id, section_data[i].section_id)>>
          ELSE <<>>)
         \o EmptySectionsFrom(section_data, i + 1)

verify_sections(section_data) ==
    LET section_ids == [i \in DOMAIN section_data |->
                           Or(section_data[i].id, section_data[i].section_id)]
        empty_sections == EmptySectionsFrom(section_data, 1)
    IN  IF section_data = <<>> THEN QualityMetrics("sections", 0, <<>>, 0, 1)
        ELSE EntityMetrics("sections", section_data, section_ids, None,
                           Len(empty_sections), empty_sections,
                           "sections with 0 students")

\* report.metrics.values(), in insertion order
MetricsValues(metrics_of) ==
    <<metrics_of.faculty, metrics_of.courses, metrics_of.rooms,
      metrics_of.sections, metrics_of.mappings>>

\* The sum of the completeness_percent of ms[i..], as a fraction.
RECURSIVE SumCompleteness(_, _)
SumCompleteness(ms, i) ==
    IF i > Len(ms) THEN [num |-> 0, den |-> 1]
    ELSE LET c == ms[i].completeness_percent
             rest == SumCompleteness(ms, i + 1)
         IN  [num |-> c.num * rest.den + rest.num * c.den,
              den |-> c.den * rest.den]

RECURSIVE IssuesFrom(_, _)
IssuesFrom(ms, i) ==
    IF i > Len(ms) THEN <<>> ELSE ms[i].issues \o IssuesFrom(ms, i + 1)

min_health_threshold == 80

IntegrityReport(is_healthy, overall_score, metrics_of, issues) ==
    [is_healthy |-> is_healthy, overall_score |-> overall_score,
     metrics |-> metrics_of, issues |-> issues, warnings |-> <<>>,
     summary |-> [score |-> overall_score, issues |-> Len(issues)]]

\* The mutant of _aggregate_report: the issues do not count for the health.
AggregateIgnoringIssues(metrics_of) ==
    LET ms == MetricsValues(metrics_of)
        total == SumCompleteness(ms, 1)
        avg_completeness == [num |-> total.num, den |-> total.den * Len(ms)]
    IN  IntegrityReport(
            avg_completeness.num >= min_health_threshold * avg_completeness.den,
            avg_completeness, metrics_of, IssuesFrom(ms, 1))

\* _aggregate_report(report, data), on the metrics verify_all has stored.
_aggregate_report(metrics_of) ==
    LET ms == MetricsValues(metrics_of)
        total_issues == Len(IssuesFrom(ms, 1))
        total == SumCompleteness(ms, 1)
        avg_completeness == [num |-> total.num, den |-> total.den * Len(ms)]
    IN  IntegrityReport(
            /\ avg_completeness.num >= min_health_threshold * avg_completeness.den
            /\ total_issues = 0,
            avg_completeness, metrics_of, IssuesFrom(ms, 1))

verify_all(d) ==
    _aggregate_report([faculty |-> verify_faculty(d.faculty),
                       courses |-> verify_courses(d.courses),
                       rooms |-> verify_rooms(d.rooms),
                       sections |-> verify_sections(d.sections),
                       mappings |-> verify_mappings(d)])

\* Uploads.
FacultyFiles ==
    {<<>>,
     <<FacultyRecord(None, "F001", None, "Dr. A", None)>>,
     <<FacultyRecord("F001", None, None, "Dr. Smith", "smith@college.edu"),
       FacultyRecord("F002", None, None, " ", None)>>,
     <<FacultyRecord(None, None, "F001", "Dr. A", None)>>,
     <<FacultyRecord("F001", None, None, None, None)>>}

CourseFiles ==
    {<<CourseRecord(None, "CS101", "Intro", NoInt, 3, "LECTURE")>>,
     <<CourseRecord("CS101", None, "Intro", 0, NoInt, "LAB"),
       CourseRecord("CS102", None, "Data", 4, NoInt, None)>>}

RoomFiles ==
    {<<>>, <<RoomRecord("R1", None, 30, "LECTURE", None)>>,
     <<RoomRecord("R1", None, 0, None, "LECTURE"),
       RoomRecord("R1", None, 40, None, "LAB")>>}

SectionFiles ==
    {<<SectionRecord(None, "S1", None, 30)>>,
     <<SectionRecord("S1", None, None, 0),
       SectionRecord("S2", None, None, 25)>>}

Entities == {REQUIRED_HEADERS[i].entity : i \in DOMAIN REQUIRED_HEADERS}

\* Every entity given, or the rooms file left out of the upload.
Uploads ==
    {[present |-> p, faculty |-> f, courses |-> c, rooms |-> r,
      sections |-> s, faculty_course_map |-> m] :
        p \in {Entities}, f \in FacultyFiles, c \in CourseFiles,
        r \in RoomFiles, s \in SectionFiles, m \in MapRowLists}
    \cup {[present |-> Entities \ {"rooms"}, faculty |-> f, courses |-> c,
           rooms |-> <<>>, sections |-> s, faculty_course_map |-> m] :
            f \in FacultyFiles, c \in CourseFiles, s \in SectionFiles,
            m \in MapRowLists}

NoUpload ==
    [present |-> {}, faculty |-> <<>>, courses |-> <<>>, rooms |-> <<>>,
     sections |-> <<>>, faculty_course_map |-> <<>>]

NoValidation == ValidationResult(FALSE, <<>>, <<>>, <<>>)

NoReport ==
    [is_healthy |-> FALSE, overall_score |-> [num |-> 0, den |-> 1],
     metrics |-> <<>>, issues |-> <<>>, warnings |-> <<>>,
     summary |-> [score |-> [num |-> 0, den |-> 1], issues |-> 0]]

\* ---- The repair engine (section 4.3 of the specification) ----

MaxRepairs == 1

RepairResult(success, final_assignments, message) ==
    [success |-> success, final_assignments |-> final_assignments,
     message |-> message]

\* One entry of current_assignments: a one-period requirement and its place.
CurrentAssignment(id, section_id, faculty_id, rtype, allowed, room_id, slot_id) ==
    [id |-> id, section_id |-> section_id, faculty_id |-> faculty_id,
     room_type_required |-> rtype, allowed_slot_ids |-> allowed,
     room_id |-> room_id, timeslot_id |-> slot_id]

\* The requirement handed to the solver for one current assignment: a
\* locked one carries its place as fixed_assignments, the others are free.
RepairSection(a, locked_assignment_ids) ==
    SolverSection(a.id, a.section_id, a.faculty_id, a.room_type_required, 1,
                  a.allowed_slot_ids, FALSE,
                  IF a.id \in locked_assignment_ids
                  THEN <<Fix(a.room_id, a.timeslot_id)>> ELSE <<>>)

RepairInput(current_assignments, locked_assignment_ids, rooms, timeslots) ==
    [sections |-> [i \in DOMAIN current_assignments |->
                      RepairSection(current_assignments[i],
                                    locked_assignment_ids)],
     rooms |-> rooms, timeslots |-> timeslots]

\* No problem item of the result is at its current (room, slot).
AvoidsForbidden(current_assignments, problem_assignment_ids, result) ==
    \A i \in DOMAIN result.assignments, j \in DOMAIN current_assignments :
        (/\ current_assignments[j].id \in problem_assignment_ids
         /\ result.assignments[i].section_id = current_assignments[j].id)
        => \/ result.assignments[i].room_id # current_assignments[j].room_id
           \/ result.assignments[i].timeslot_id
                 # current_assignments[j].timeslot_id

\* repair_schedule: the solver is invoked on a fresh SolverService with the
\* locked items fixed and the problem items free and forbidden their
\* current place; without a feasible result the repair fails.
repair_schedule(avail, current_assignments, problem_ids, locked_ids, rooms, timeslots) ==
    LET inp == RepairInput(current_assignments, locked_ids, rooms, timeslots)
        found == {o.result : o \in solve(avail, <<>>, inp)}
        moved == {r \in found :
                    /\ r.is_feasible
                    /\ AvoidsForbidden(current_assignments, problem_ids, r)}
    IN  IF moved = {}
        THEN {RepairResult(FALSE, <<>>, "Repair Failed")}
        ELSE {RepairResult(TRUE, r.assignments, "Repair Successful") :
                r \in moved}

\* The schedule after a repair: each assignment at the first place the
\* final assignments give it, the schedule as it was after a failure.
Repaired(current_assignments, result) ==
    IF ~result.success THEN current_assignments
    ELSE [j \in DOMAIN current_assignments |->
            LET a == current_assignments[j]
                at == PlacedAt(result.final_assignments, a.id)
            IN  IF at = {} THEN a
                ELSE [a EXCEPT
                        !.room_id = result.final_assignments[MinOf(at)].room_id,
                        !.timeslot_id =
                            result.final_assignments[MinOf(at)].timeslot_id]]

\* The rooms and timeslots of the repair tests.
Venues ==
    {[rooms |-> <<SolverRoom(1, "Lecture")>>,
      timeslots |-> <<SolverTimeslot(1, 0, 900, 1000)>>],
     [rooms |-> <<SolverRoom(1, "Lecture"), SolverRoom(2, "Lecture")>>,
      timeslots |-> <<SolverTimeslot(1, 0, 900, 1000),
                      SolverTimeslot(2, 0, 1000, 1100)>>]}

\* No two assignments of the schedule share a room, a faculty or a student
\* group in a timeslot.
ConflictFree(sched) ==
    \A i, j \in DOMAIN sched :
        (i < j /\ sched[i].timeslot_id = sched[j].timeslot_id)
        => /\ sched[i].room_id # sched[j].room_id
           /\ sched[i].faculty_id # sched[j].faculty_id
           /\ sched[i].section_id # sched[j].section_id

\* The schedules of a venue: A1 alone, or A1 and A2, placed without conflict.
SchedulesOf(v) ==
    LET slots == [i \in DOMAIN v.timeslots |-> v.timeslots[i].id]
        places == {<<v.rooms[r].id, v.timeslots[t].id>> :
                      r \in DOMAIN v.rooms, t \in DOMAIN v.timeslots}
        A1(pl) == CurrentAssignment(101, 1, 10, "Lecture", slots, pl[1], pl[2])
        A2(pl) == CurrentAssignment(102, 2, 11, "Lecture", slots, pl[1], pl[2])
    IN  {s \in {<<A1(p)>> : p \in places}
                \cup {<<A1(p), A2(q)>> : p, q \in places} : ConflictFree(s)}

NoVenue == [rooms |-> <<>>, timeslots |-> <<>>]

NoRepair ==
    [problem_assignment_ids |-> {}, locked_assignment_ids |-> {},
     before |-> <<>>, result |-> RepairResult(FALSE, <<>>, "")]

(***************************************************************************)
(* State                                                                   *)
(***************************************************************************)

VARIABLES
    ortools,    \* _ORTOOLS_AVAILABLE
    cp_model,   \* SolverService.model, see ModelSat
    plan,       \* the arguments of the solve calls the caller makes, in order
    calls,      \* number of solve calls made on the instance
    results,    \* the SolverResult of each call made, in order
    assignments,         \* the assignments table, in id order
    timetable_versions,  \* the timetable_versions table
    next_id,    \* next value of the assignments id sequence
    runs,       \* number of generate_timetable calls made
    last,       \* the last generate_timetable call that returned: its
                \* arguments, the tables when it began and when it
                \* returned, and how it ended
    faculty,    \* the faculty table
    sessions,   \* where each session is inside generate_timetable, with
                \* the locals of the call
    schema,     \* "created" when the tables exist, "dropped" between the
                \* drop_all and the create_all of a reset
    next_version_id,  \* next value of the timetable_versions id sequence
    request,    \* the NormalizationRequest being normalized
    similar,    \* pairs of lowercased names with ratio >= threshold
    response,   \* the NormalizationResponse of analyze(request)
    confirmations,  \* the confirmations sent for response
    final_mapping,  \* the FinalMapping of finalize_mapping
    norm_pc,    \* "idle", "analyzed" or "finalized"
    rewrites,   \* number of times a final mapping was applied to request
    normalized, \* request is the result of applying an accept-all mapping
    data,       \* the tables handed to the DataIntegrityVerifier
    metrics,    \* the QualityMetrics verify_mappings returned for data
    upload,     \* the uploaded data handed to the validator and verify_all
    validation, \* the ValidationResult of validate_structure(upload)
    report,     \* the IntegrityReport of verify_all(upload)
    upload_pc,  \* which of the two have run on the upload
    slot_rows,  \* the rows of the timeslots table read by step 1
    sec_shift,  \* the shift of the section of the assignment being prepared
    allowed_slots,  \* the allowed_slots list built for it
    resolved,   \* allowed_slots has been built
    schedule,   \* the current assignments the repair engine works on
    venue,      \* the rooms and timeslots given to the repair engine
    repair,     \* the last repair_schedule call: arguments and result
    repairs     \* number of repair_schedule calls made

solver_vars == <<cp_model, plan, calls, results>>

db_vars == <<assignments, timetable_versions, next_id, runs, last, faculty,
            sessions, schema, next_version_id>>

norm_vars == <<request, similar, response, confirmations, final_mapping,
               norm_pc, rewrites, normalized>>

verif_vars == <<data, metrics>>

upload_vars == <<upload, validation, report, upload_pc>>

shift_vars == <<slot_rows, sec_shift, allowed_slots, resolved>>

repair_vars == <<schedule, venue, repair, repairs>>

other_vars == <<upload_vars, shift_vars, repair_vars>>

vars == <<ortools, cp_model, plan, calls, results, assignments,
          timetable_versions, next_id, runs, last, faculty, sessions,
          schema, next_version_id, norm_vars, verif_vars, other_vars>>

\* The verifier has not been called.
VerifIdle ==
    /\ data = NoData
    /\ metrics = NoMetrics

\* Nothing has been uploaded.
UploadIdle ==
    /\ upload = NoUpload
    /\ validation = NoValidation
    /\ report = NoReport
    /\ upload_pc = {}

\* No assignment is being prepared.
ShiftIdle ==
    /\ slot_rows = <<>>
    /\ sec_shift = ""
    /\ allowed_slots = <<>>
    /\ resolved = FALSE

\* The repair engine has not been called.
RepairIdle ==
    /\ schedule = <<>>
    /\ venue = NoVenue
    /\ repair = NoRepair
    /\ repairs = 0

\* No normalization request has been made.
NormIdle ==
    /\ request = NoRequest
    /\ similar = {}
    /\ response = NoResponse
    /\ confirmations = NoConfirmations
    /\ final_mapping = NoMapping
    /\ norm_pc = "idle"
    /\ rewrites = 0
    /\ normalized = FALSE

\* SolverService(): a fresh model when OR-Tools imports, None otherwise.
Init ==
    /\ ortools \in BOOLEAN
    /\ cp_model = <<>>
    /\ plan \in Plans
    /\ calls = 0
    /\ results = <<>>
    /\ assignments = <<>>
    /\ timetable_versions = <<>>
    /\ next_id = 1
    /\ runs = 0
    /\ last = NoCall
    /\ faculty = <<>>
    /\ sessions = NoSessions
    /\ schema = "created"
    /\ next_version_id = 1
    /\ NormIdle
    /\ VerifIdle
    /\ UploadIdle
    /\ ShiftIdle
    /\ RepairIdle

\* solver.solve(sections, rooms, timeslots)
Solve ==
    /\ calls < Len(plan)
    /\ \E r \in solve(ortools, cp_model, plan[calls + 1]) :
          /\ cp_model' = r.model
          /\ results' = Append(results, r.result)
    /\ calls' = calls + 1
    /\ UNCHANGED <<ortools, plan>>
    /\ UNCHANGED db_vars
    /\ UNCHANGED norm_vars
    /\ UNCHANGED verif_vars
    /\ UNCHANGED other_vars

Next == Solve

Spec == Init /\ [][Next]_vars

\* The database before the first call: tables whose rows satisfy the
\* schema.  A requirement names a faculty row, so the faculty table is
\* empty only when the assignments table is.
InitDb ==
    /\ ortools \in BOOLEAN
    /\ cp_model = <<>>
    /\ plan = <<>>
    /\ calls = 0
    /\ results = <<>>
    /\ assignments \in StoredTables
    /\ timetable_versions = <<>>
    /\ next_id = Len(assignments) + 1
    /\ runs = 0
    /\ last = NoCall
    /\ faculty \in (IF assignments = <<>> THEN {<<>>} ELSE {}) \cup {FacultyTable}
    /\ sessions = NoSessions
    /\ schema = "created"
    /\ next_version_id = 1
    /\ NormIdle
    /\ VerifIdle
    /\ UploadIdle
    /\ ShiftIdle
    /\ RepairIdle

\* One mapping row handed to process_assignments; a key the row lacks is "".
MappingItem(faculty_email, faculty_id, section_id, course_id) ==
    [faculty_email |-> faculty_email, faculty_id |-> faculty_id,
     section_id |-> section_id, course_id |-> course_id]

\* normalize_text(text, uppercase)
normalize_text(text, uppercase) ==
    IF uppercase THEN Upper(strip(text)) ELSE strip(text)

\* fac_email_map.get(f_email), 0 for None
FacultyByEmail(faculty_rows, f_email) ==
    LET hit == {i \in DOMAIN faculty_rows : faculty_rows[i].email = f_email}
    IN  IF hit = {} THEN 0 ELSE faculty_rows[MaxOf(hit)].id

\* sec_map.get(code) and course_map.get(code), 0 for None
IdByCode(table, code) ==
    LET hit == {i \in DOMAIN table : table[i].code = code}
    IN  IF hit = {} THEN 0 ELSE table[MaxOf(hit)].id

\* The loop over the mapping rows, run when fac_code_map could be built,
\* which is when the faculty table is empty: fac_code_map is then empty.
\* acc holds the table as the session sees it, the number of rows added
\* without room and timeslot, and the number of duplicates deleted.
RECURSIVE ImportFrom(_, _, _, _)
ImportFrom(faculty_rows, items, i, acc) ==
    IF i > Len(items) THEN acc
    ELSE LET item   == items[i]
             fac_id == IF item.faculty_email # ""
                       THEN FacultyByEmail(faculty_rows,
                                normalize_text(item.faculty_email, FALSE))
                       ELSE 0
             sec_id == IdByCode(SectionTable,
                                normalize_text(item.section_id, TRUE))
             crs_id == IdByCode(CourseTable,
                                normalize_text(item.course_id, TRUE))
             Same(a) == /\ a.faculty_id = fac_id
                        /\ a.course_id = crs_id
                        /\ a.section_id = sec_id
             existing_list == SelectSeq(acc.assignments, Same)
             Kept(a) == ~Same(a) \/ a = existing_list[1]
         IN  IF fac_id = 0 \/ sec_id = 0 \/ crs_id = 0
             THEN ImportFrom(faculty_rows, items, i + 1, acc)
             ELSE IF existing_list = <<>>
             THEN ImportFrom(faculty_rows, items, i + 1,
                             [acc EXCEPT !.added = @ + 1])
             ELSE IF Len(existing_list) > 1
             THEN ImportFrom(faculty_rows, items, i + 1,
                     [acc EXCEPT !.assignments = SelectSeq(@, Kept),
                                 !.removed = @ + Len(existing_list) - 1])
             ELSE ImportFrom(faculty_rows, items, i + 1, acc)

\* ImportService(db).process_assignments(items): reading f.code of a faculty
\* row raises AttributeError; a row added without room_id and timeslot_id
\* violates NOT NULL, so the transaction that holds one is rolled back.
process_assignments(faculty_rows, table, items) ==
    IF faculty_rows # <<>>
    THEN [outcome |-> "AttributeError", assignments |-> table, added |-> 0,
          removed |-> 0]
    ELSE LET r == ImportFrom(faculty_rows, items, 1,
                      [assignments |-> table, added |-> 0, removed |-> 0])
         IN  IF r.added > 0
             THEN [outcome |-> "IntegrityError", assignments |-> table,
                   added |-> 0, removed |-> 0]
             ELSE [outcome |-> "committed", assignments |-> r.assignments,
                   added |-> 0, removed |-> r.removed]

\* The mapping files imported.
ImportItems ==
    { <<MappingItem("a@college.edu", "", "S1", "C1")>>,
      <<MappingItem("", "F2", "S2", "C2"),
        MappingItem("b@college.edu", "", "S9", "C1")>> }

\* Everything outside the database.
outside_db == <<ortools, solver_vars, norm_vars, verif_vars, other_vars>>

\* ImportService(db).process_assignments(items).  On dropped tables the
\* first query raises ProgrammingError; otherwise the call leaves what
\* process_assignments commits.
ProcessAssignments ==
    /\ IF schema = "dropped"
       THEN UNCHANGED assignments
       ELSE \E items \in ImportItems :
               assignments' =
                   process_assignments(faculty, assignments, items).assignments
    /\ UNCHANGED <<timetable_versions, next_id, runs, last, faculty, sessions,
                   schema, next_version_id>>
    /\ UNCHANGED outside_db

\* scripts/generate.py: db.query(TimetableVersion).delete(); db.commit().
\* On dropped tables the DELETE raises and the table stays as it is, gone.
ClearVersions ==
    /\ timetable_versions' = <<>>
    /\ UNCHANGED <<assignments, next_id, runs, last, faculty, sessions,
                   schema, next_version_id>>
    /\ UNCHANGED outside_db

\* reset_db() and sync_db(), first half: Base.metadata.drop_all.  DROP TABLE
\* waits for the sessions that hold a transaction on the tables, which a
\* call does from its first read to its first commit.  The sections,
\* courses, rooms and timeslots tables go as well; they are kept as they
\* were here, since after a reset nothing reads them before it finds the
\* assignments table empty or fails on the missing faculty row.
DropAll ==
    /\ schema = "created"
    /\ \A s \in Sessions : sessions[s].pc # "solved"
    /\ schema' = "dropped"
    /\ assignments' = <<>>
    /\ timetable_versions' = <<>>
    /\ faculty' = <<>>
    /\ next_id' = 1
    /\ next_version_id' = 1
    /\ UNCHANGED <<runs, last, sessions>>
    /\ UNCHANGED outside_db

\* reset_db() and sync_db(), second half: Base.metadata.create_all makes
\* the tables again, empty, with their id sequences at 1.
CreateAll ==
    /\ schema = "dropped"
    /\ schema' = "created"
    /\ UNCHANGED <<assignments, timetable_versions, next_id, runs, last,
                   faculty, sessions, next_version_id>>
    /\ UNCHANGED outside_db

\* What a call leaves in `last` when it returns or raises.
Returned(sess, outcome, table, versions) ==
    [outcome |-> outcome, version_number |-> sess.version_number,
     targets |-> sess.targets, before |-> sess.all_assignments,
     versions_before |-> sess.versions_before, after |-> table,
     versions_after |-> versions]

\* Step 5 of a full generation with the DELETE committed before the
\* feasibility test of step 4.
DeleteBeforeTest(table, targets, result) ==
    [assignments |-> IF targets = {} THEN <<>> ELSE table,
     outcome |-> IF result.is_feasible THEN "solved" ELSE "infeasible"]

\* Step 4: what the call has written when it tests result.is_feasible,
\* and whether it returns None there.
AfterSolve(table, targets, result) ==
    [assignments |-> table,
     outcome |-> IF result.is_feasible THEN "solved" ELSE "infeasible"]

\* The call of session s ends with this outcome; no step that ends a call
\* changes a table.
Ends(s, outcome) ==
    /\ last' = Returned(sessions[s], outcome, assignments,
                        timetable_versions)
    /\ sessions' = [sessions EXCEPT ![s] = IdleSession]

\* generate_timetable(version_number, targets), steps 1 to 4: the tables
\* are read, the solver runs, and the call returns at once when there is no
\* assignment or no feasible timetable.  The read raises ProgrammingError
\* when the tables are dropped.
BeginGenerate(s) ==
    /\ runs < MaxRuns
    /\ sessions[s].pc = "idle"
    /\ s = "B" => sessions["A"].pc # "idle"
    /\ \E version_number \in 1..MaxVersion, targets \in TargetChoices :
          LET sess == [IdleSession EXCEPT
                          !.version_number = version_number,
                          !.targets = targets,
                          !.all_assignments = assignments,
                          !.versions_before = timetable_versions]
          IN  IF schema = "dropped" \/ assignments = <<>>
              THEN /\ last' = Returned(sess,
                                 IF schema = "dropped" THEN "ProgrammingError"
                                 ELSE "no_assignments",
                                 assignments, timetable_versions)
                   /\ UNCHANGED <<assignments, sessions>>
              ELSE \E r \in solve(ortools, <<>>,
                                  SolverInput(assignments, targets)) :
                      LET t == AfterSolve(assignments, targets, r.result)
                      IN  /\ assignments' = t.assignments
                          /\ IF t.outcome = "infeasible"
                             THEN /\ last' = Returned(sess, "infeasible",
                                                t.assignments,
                                                timetable_versions)
                                  /\ UNCHANGED sessions
                             ELSE /\ sessions' = [sessions EXCEPT ![s] =
                                        [sess EXCEPT
                                           !.pc = "solved",
                                           !.allocs = r.result.assignments,
                                           !.status = r.result.status]]
                                  /\ UNCHANGED last
    /\ runs' = runs + 1
    /\ UNCHANGED <<timetable_versions, next_id, faculty, schema,
                   next_version_id>>
    /\ UNCHANGED outside_db

\* Step 5, full generation: db.query(Assignment).delete(); db.commit().
\* The transaction open since step 1 keeps the tables from being dropped.
CommitDelete(s) ==
    /\ sessions[s].pc = "solved"
    /\ sessions[s].targets = {}
    /\ assignments' = <<>>
    /\ sessions' = [sessions EXCEPT ![s].pc = "deleted"]
    /\ UNCHANGED <<timetable_versions, next_id, runs, last, faculty,
                   schema, next_version_id>>
    /\ UNCHANGED outside_db

\* The new rows name faculty rows that are in the faculty table.
FacultyPresent(faculty_rows, rows) ==
    \A i \in DOMAIN rows :
        \E j \in DOMAIN faculty_rows : faculty_rows[j].id = rows[i].faculty_id

\* Step 5, full generation: one new row per placement, then db.commit().
\* The INSERT raises ProgrammingError on dropped tables and IntegrityError
\* (a foreign key violation, after the ids were drawn) when the tables
\* were made again in between.
CommitInsert(s) ==
    /\ sessions[s].pc = "deleted"
    /\ LET rows == FullSave(sessions[s].all_assignments, sessions[s].allocs,
                            next_id)
       IN  IF schema = "dropped"
           THEN /\ UNCHANGED <<assignments, next_id>>
                /\ Ends(s, "ProgrammingError")
           ELSE IF ~FacultyPresent(faculty, rows)
           THEN /\ UNCHANGED assignments
                /\ next_id' = next_id + Len(rows)
                /\ Ends(s, "ForeignKeyViolation")
           ELSE /\ assignments' = assignments \o rows
                /\ next_id' = next_id + Len(rows)
                /\ sessions' = [sessions EXCEPT ![s].pc = "stored"]
                /\ UNCHANGED last
    /\ UNCHANGED <<timetable_versions, runs, faculty, schema,
                   next_version_id>>
    /\ UNCHANGED outside_db

\* Step 5, partial generation: the rows read at step 1 are given their
\* placements, then db.commit(); StaleDataError when a changed row has been
\* deleted since.
CommitUpdate(s) ==
    /\ sessions[s].pc = "solved"
    /\ sessions[s].targets # {}
    /\ IF StaleRows(assignments, sessions[s].all_assignments,
                    sessions[s].allocs) # {}
       THEN /\ UNCHANGED assignments
            /\ Ends(s, "StaleDataError")
       ELSE /\ assignments' = PartialSave(assignments,
                                  sessions[s].all_assignments,
                                  sessions[s].allocs)
            /\ sessions' = [sessions EXCEPT ![s].pc = "stored"]
            /\ UNCHANGED last
    /\ UNCHANGED <<timetable_versions, next_id, runs, faculty,
                   schema, next_version_id>>
    /\ UNCHANGED outside_db

\* Step 6 up to db.commit(): the snapshot is built from the tables and the
\* version row is added and committed.  The reads raise ProgrammingError on
\* dropped tables; version_number is unique, so a number already in the
\* table raises IntegrityError, after the id was drawn.
CommitVersion(s) ==
    /\ sessions[s].pc = "stored"
    /\ LET dup == \E i \in DOMAIN timetable_versions :
                     timetable_versions[i].version_number =
                         sessions[s].version_number
       IN  IF schema = "dropped"
           THEN /\ UNCHANGED <<timetable_versions, next_version_id>>
                /\ Ends(s, "ProgrammingError")
           ELSE IF dup
           THEN /\ UNCHANGED timetable_versions
                /\ next_version_id' = next_version_id + 1
                /\ Ends(s, "IntegrityError")
           ELSE /\ timetable_versions' =
                       Append(timetable_versions,
                              TimetableVersion(next_version_id,
                                               sessions[s].version_number,
                                               sessions[s].status))
                /\ next_version_id' = next_version_id + 1
                /\ sessions' = [sessions EXCEPT
                                  ![s].pc = "committed",
                                  ![s].version_id = next_version_id]
                /\ UNCHANGED last
    /\ UNCHANGED <<assignments, next_id, runs, faculty, schema>>
    /\ UNCHANGED outside_db

\* Step 6, db.refresh(new_version): the row is read back by its id in a new
\* transaction; InvalidRequestError when it is no longer there.
Refresh(s) ==
    /\ sessions[s].pc = "committed"
    /\ UNCHANGED <<assignments, timetable_versions>>
    /\ Ends(s, IF schema = "dropped" THEN "ProgrammingError"
               ELSE IF \E i \in DOMAIN timetable_versions :
                          timetable_versions[i].id = sessions[s].version_id
               THEN "saved" ELSE "InvalidRequestError")
    /\ UNCHANGED <<next_id, runs, faculty, schema,
                   next_version_id>>
    /\ UNCHANGED outside_db

NextDb ==
    \/ ProcessAssignments
    \/ ClearVersions
    \/ DropAll
    \/ CreateAll
    \/ \E s \in Sessions : BeginGenerate(s)
    \/ \E s \in Sessions : CommitDelete(s)
    \/ \E s \in Sessions : CommitInsert(s)
    \/ \E s \in Sessions : CommitUpdate(s)
    \/ \E s \in Sessions : CommitVersion(s)
    \/ \E s \in Sessions : Refresh(s)

SpecDb == InitDb /\ [][NextDb]_vars

\* A client holding a list of faculty names and a list of course names,
\* before it calls the normalization endpoints.  The solver is not involved:
\* its variables stay as they are.
InitNorm ==
    /\ ortools = FALSE
    /\ cp_model = <<>>
    /\ plan = <<>>
    /\ calls = 0
    /\ results = <<>>
    /\ assignments = <<>>
    /\ timetable_versions = <<>>
    /\ next_id = 1
    /\ runs = 0
    /\ last = NoCall
    /\ faculty = <<>>
    /\ sessions = NoSessions
    /\ schema = "created"
    /\ next_version_id = 1
    /\ request \in Requests
    /\ similar \in SimilarityRelations(request)
    /\ response = NoResponse
    /\ confirmations = NoConfirmations
    /\ final_mapping = NoMapping
    /\ norm_pc = "idle"
    /\ rewrites = 0
    /\ normalized = FALSE
    /\ VerifIdle
    /\ UploadIdle
    /\ ShiftIdle
    /\ RepairIdle

\* Every cluster of the response is confirmed as accepted.
AcceptsAll(resp, conf) ==
    /\ \A i \in DOMAIN resp.faculty_suggestions :
          StatusLower(ConfirmationGet(conf.faculty,
              resp.faculty_suggestions[i].cluster_id)) = "accepted"
    /\ \A i \in DOMAIN resp.course_suggestions :
          StatusLower(ConfirmationGet(conf.course,
              resp.course_suggestions[i].cluster_id)) = "accepted"

\* agent.analyze(request)
Analyze ==
    /\ norm_pc = "idle"
    /\ response' = analyze(similar, request)
    /\ norm_pc' = "analyzed"
    /\ UNCHANGED <<request, similar, confirmations, final_mapping, rewrites,
                   normalized>>
    /\ UNCHANGED <<ortools, solver_vars, db_vars>>
    /\ UNCHANGED verif_vars
    /\ UNCHANGED other_vars

\* agent.finalize_mapping(response, faculty_confirmations,
\* course_confirmations)
FinalizeMapping ==
    /\ norm_pc = "analyzed"
    /\ \E fc \in ConfirmationChoices(response.faculty_suggestions),
          cc \in ConfirmationChoices(response.course_suggestions) :
          /\ confirmations' = [faculty |-> fc, course |-> cc]
          /\ final_mapping' = finalize_mapping(response, fc, cc, 1)
    /\ norm_pc' = "finalized"
    /\ UNCHANGED <<request, similar, response, rewrites, normalized>>
    /\ UNCHANGED <<ortools, solver_vars, db_vars>>
    /\ UNCHANGED verif_vars
    /\ UNCHANGED other_vars

\* The client rewrites its names through the final mapping and starts over
\* with the rewritten lists.
ApplyMapping ==
    /\ norm_pc = "finalized"
    /\ rewrites < MaxRewrites
    /\ request' = NormalizationRequest(
                      RewriteNames(request.faculty_names,
                                   final_mapping.faculty_mapping),
                      RewriteNames(request.course_names,
                                   final_mapping.course_mapping))
    /\ normalized' = AcceptsAll(response, confirmations)
    /\ response' = NoResponse
    /\ confirmations' = NoConfirmations
    /\ final_mapping' = NoMapping
    /\ norm_pc' = "idle"
    /\ rewrites' = rewrites + 1
    /\ UNCHANGED similar
    /\ UNCHANGED <<ortools, solver_vars, db_vars>>
    /\ UNCHANGED verif_vars
    /\ UNCHANGED other_vars

NextNorm == Analyze \/ FinalizeMapping \/ ApplyMapping

SpecNorm == InitNorm /\ [][NextNorm]_vars

\* The tables of an upload, before they are verified.  The solver is not
\* involved: its variables stay as they are.
InitVerif ==
    /\ ortools = FALSE
    /\ cp_model = <<>>
    /\ plan = <<>>
    /\ calls = 0
    /\ results = <<>>
    /\ assignments = <<>>
    /\ timetable_versions = <<>>
    /\ next_id = 1
    /\ runs = 0
    /\ last = NoCall
    /\ faculty = <<>>
    /\ sessions = NoSessions
    /\ schema = "created"
    /\ next_version_id = 1
    /\ NormIdle
    /\ data \in VerifierData
    /\ metrics = NoMetrics
    /\ UploadIdle
    /\ ShiftIdle
    /\ RepairIdle

\* verifier.verify_mappings(data)
VerifyMappings ==
    /\ metrics = NoMetrics
    /\ metrics' = verify_mappings(data)
    /\ UNCHANGED data
    /\ UNCHANGED <<ortools, solver_vars, db_vars>>
    /\ UNCHANGED norm_vars
    /\ UNCHANGED other_vars

NextVerif == VerifyMappings

SpecVerif == InitVerif /\ [][NextVerif]_vars

\* An upload, before it is validated and verified.
InitUpload ==
    /\ ortools = FALSE
    /\ cp_model = <<>>
    /\ plan = <<>>
    /\ calls = 0
    /\ results = <<>>
    /\ assignments = <<>>
    /\ timetable_versions = <<>>
    /\ next_id = 1
    /\ runs = 0
    /\ last = NoCall
    /\ faculty = <<>>
    /\ sessions = NoSessions
    /\ schema = "created"
    /\ next_version_id = 1
    /\ NormIdle
    /\ VerifIdle
    /\ upload \in Uploads
    /\ validation = NoValidation
    /\ report = NoReport
    /\ upload_pc = {}
    /\ ShiftIdle
    /\ RepairIdle

\* validator.validate_structure(data)
ValidateStructure ==
    /\ "validated" \notin upload_pc
    /\ validation' \in validate_structure(upload)
    /\ upload_pc' = upload_pc \cup {"validated"}
    /\ UNCHANGED <<upload, report>>
    /\ UNCHANGED <<ortools, solver_vars, db_vars>>
    /\ UNCHANGED norm_vars
    /\ UNCHANGED verif_vars
    /\ UNCHANGED <<shift_vars, repair_vars>>

\* verifier.verify_all(data)
VerifyAll ==
    /\ "verified" \notin upload_pc
    /\ report' = verify_all(upload)
    /\ upload_pc' = upload_pc \cup {"verified"}
    /\ UNCHANGED <<upload, validation>>
    /\ UNCHANGED <<ortools, solver_vars, db_vars>>
    /\ UNCHANGED norm_vars
    /\ UNCHANGED verif_vars
    /\ UNCHANGED <<shift_vars, repair_vars>>

NextUpload == ValidateStructure \/ VerifyAll

SpecUpload == InitUpload /\ [][NextUpload]_vars

\* The timeslots table and the shift of the section of one assignment,
\* before step 3 builds its allowed_slots.
InitShift ==
    /\ ortools = FALSE
    /\ cp_model = <<>>
    /\ plan = <<>>
    /\ calls = 0
    /\ results = <<>>
    /\ assignments = <<>>
    /\ timetable_versions = <<>>
    /\ next_id = 1
    /\ runs = 0
    /\ last = NoCall
    /\ faculty = <<>>
    /\ sessions = NoSessions
    /\ schema = "created"
    /\ next_version_id = 1
    /\ NormIdle
    /\ VerifIdle
    /\ UploadIdle
    /\ slot_rows \in SlotTables
    /\ sec_shift \in ShiftValues
    /\ allowed_slots = <<>>
    /\ resolved = FALSE
    /\ RepairIdle

\* Step 3 of generate_timetable for one assignment: its allowed_slots.
ResolveShift ==
    /\ ~resolved
    /\ allowed_slots' = AllowedSlotsOf(slot_rows, sec_shift)
    /\ resolved' = TRUE
    /\ UNCHANGED <<slot_rows, sec_shift>>
    /\ UNCHANGED <<ortools, solver_vars, db_vars>>
    /\ UNCHANGED norm_vars
    /\ UNCHANGED verif_vars
    /\ UNCHANGED <<upload_vars, repair_vars>>

NextShift == ResolveShift

SpecShift == InitShift /\ [][NextShift]_vars

\* A schedule in a venue, before any repair.
InitRepair ==
    /\ ortools \in BOOLEAN
    /\ cp_model = <<>>
    /\ plan = <<>>
    /\ calls = 0
    /\ results = <<>>
    /\ assignments = <<>>
    /\ timetable_versions = <<>>
    /\ next_id = 1
    /\ runs = 0
    /\ last = NoCall
    /\ faculty = <<>>
    /\ sessions = NoSessions
    /\ schema = "created"
    /\ next_version_id = 1
    /\ NormIdle
    /\ VerifIdle
    /\ UploadIdle
    /\ ShiftIdle
    /\ venue \in Venues
    /\ schedule \in SchedulesOf(venue)
    /\ repair = NoRepair
    /\ repairs = 0

\* RepairEngine().repair_schedule(current_assignments, problem_assignment_ids,
\* locked_assignment_ids, rooms, timeslots), the caller taking the result.
RepairSchedule ==
    /\ repairs < MaxRepairs
    /\ \E problem_ids \in SUBSET {schedule[i].id : i \in DOMAIN schedule} :
       \E locked_ids \in SUBSET ({schedule[i].id : i \in DOMAIN schedule}
                                   \ problem_ids) :
       \E result \in repair_schedule(ortools, schedule, problem_ids,
                                      locked_ids, venue.rooms, venue.timeslots) :
          /\ repair' = [problem_assignment_ids |-> problem_ids,
                        locked_assignment_ids |-> locked_ids,
                        before |-> schedule, result |-> result]
          /\ schedule' = Repaired(schedule, result)
    /\ repairs' = repairs + 1
    /\ UNCHANGED venue
    /\ UNCHANGED <<ortools, solver_vars, db_vars>>
    /\ UNCHANGED norm_vars
    /\ UNCHANGED verif_vars
    /\ UNCHANGED <<upload_vars, shift_vars>>

NextRepair == RepairSchedule

SpecRepair == InitRepair /\ [][NextRepair]_vars

\* The last call and its result.
Called == calls > 0

Inp == plan[calls]

Res == results[calls]

(***************************************************************************)
(* Properties of SolverService.solve                                       *)
(***************************************************************************)

\* C1: a feasible result holds exactly required_periods placements for
\* every requirement of the input, fixed_assignments or not.
C1_ExactPeriods ==
    (Called /\ Res.is_feasible) =>
        \A s \in Range(Inp.sections) :
            Cardinality(PlacedAt(Res.assignments, s.id)) = s.required_periods

\* C2: no two placements of a feasible result share (room, timeslot).
C2_RoomExclusive ==
    (Called /\ Res.is_feasible) =>
        \A i, j \in DOMAIN Res.assignments :
            (i # j) =>
                ~(/\ Res.assignments[i].room_id = Res.assignments[j].room_id
                  /\ Res.assignments[i].timeslot_id =
                         Res.assignments[j].timeslot_id)

\* A feasible result that fills two rooms in one timeslot.
C2_Witness ==
    /\ Called /\ Res.is_feasible
    /\ \E i, j \in DOMAIN Res.assignments :
          /\ Res.assignments[i].timeslot_id = Res.assignments[j].timeslot_id
          /\ Res.assignments[i].room_id # Res.assignments[j].room_id

FacultyOf(inp, pl) == SecById(inp.sections, pl.section_id).faculty_id

GroupOf(inp, pl) == SecById(inp.sections, pl.section_id).section_id

\* C3: no two placements of a feasible result share (faculty, timeslot);
\* an input with two requirements of one faculty member and a single
\* timeslot is reported infeasible.
C3_FacultyExclusive ==
    /\ (Called /\ Res.is_feasible) =>
          \A i, j \in DOMAIN Res.assignments :
              (i # j /\ FacultyOf(Inp, Res.assignments[i]) =
                            FacultyOf(Inp, Res.assignments[j])) =>
                  Res.assignments[i].timeslot_id #
                      Res.assignments[j].timeslot_id
    /\ (/\ Called
        /\ Len(Inp.timeslots) = 1
        /\ \E i, j \in DOMAIN Inp.sections :
              i # j /\ Inp.sections[i].faculty_id = Inp.sections[j].faculty_id)
          => ~Res.is_feasible

\* A feasible result that places two requirements of one faculty member.
C3_Witness ==
    /\ Called /\ Res.is_feasible
    /\ \E i, j \in DOMAIN Res.assignments :
          /\ Res.assignments[i].section_id # Res.assignments[j].section_id
          /\ FacultyOf(Inp, Res.assignments[i]) =
                 FacultyOf(Inp, Res.assignments[j])

\* C4: no two placements of a feasible result share (student group,
\* timeslot), the second period of a lab included.
C4_GroupExclusive ==
    (Called /\ Res.is_feasible) =>
        \A i, j \in DOMAIN Res.assignments :
            (i # j /\ GroupOf(Inp, Res.assignments[i]) =
                          GroupOf(Inp, Res.assignments[j])) =>
                Res.assignments[i].timeslot_id #
                    Res.assignments[j].timeslot_id

\* A feasible result that places a two-period lab and another requirement
\* of the lab's student group.
C4_Witness ==
    /\ Called /\ Res.is_feasible
    /\ \E i, j \in DOMAIN Res.assignments :
          /\ Res.assignments[i].section_id # Res.assignments[j].section_id
          /\ GroupOf(Inp, Res.assignments[i]) =
                 GroupOf(Inp, Res.assignments[j])
          /\ SecById(Inp.sections, Res.assignments[i].section_id).is_lab
          /\ Cardinality(PlacedAt(Res.assignments,
                                  Res.assignments[i].section_id)) = 2

\* The placements of lab s are two periods in one room, on one day, the
\* second starting when the first ends.
LabPair(inp, a, s) ==
    /\ Cardinality(PlacedAt(a, s.id)) = 2
    /\ \E i, j \in PlacedAt(a, s.id) :
          /\ i # j
          /\ a[i].room_id = a[j].room_id
          /\ SlotById(inp.timeslots, a[i].timeslot_id).day =
                 SlotById(inp.timeslots, a[j].timeslot_id).day
          /\ SlotById(inp.timeslots, a[i].timeslot_id).end_time =
                 SlotById(inp.timeslots, a[j].timeslot_id).start_time

\* C5: in a feasible result every lab of two periods occupies two adjacent
\* timeslots of one day in one room, so it never starts in a timeslot
\* without a successor.
C5_LabConsecutive ==
    (Called /\ Res.is_feasible) =>
        \A s \in Range(Inp.sections) :
            (s.is_lab /\ s.required_periods = 2) =>
                LabPair(Inp, Res.assignments, s)

\* C7: the result of a call made after other calls on the instance is one
\* that a fresh SolverService returns for the same arguments: nothing of
\* the earlier calls is kept.
C7_NoStateKept ==
    (calls > 1) => Res \in {r.result : r \in solve(ortools, <<>>, Inp)}

\* C8: two calls of one instance with equal arguments return the same
\* placements.
C8_Deterministic ==
    \A j, k \in 1..calls :
        (plan[j] = plan[k]) =>
            results[j].assignments = results[k].assignments

\* The constraint set the CP path builds for inp can be met.
CpSatisfiable(inp) == EarlyReturn(inp) = <<0, 0>> /\ CpSolutions(inp) # {}

\* C9: the fallback reports feasible exactly when the CP constraint set is
\* satisfiable, and what it returns satisfies that set, pins included.
C9_FallbackEquivalent ==
    (Called /\ ~ortools) =>
        /\ Res.is_feasible <=> CpSatisfiable(Inp)
        /\ Res.is_feasible =>
              \E V \in CpSolutions(Inp) :
                  Range(CpAssignments(Inp, V)) = Range(Res.assignments)

(***************************************************************************)
(* Properties of TimetableManager.generate_timetable                       *)
(***************************************************************************)

\* C6: after a successful partial regeneration every row of a section
\* outside the targets that had a room and a timeslot still has them.
C6_FixedRowsKept ==
    (last.outcome = "saved" /\ last.targets # {}) =>
        \A i \in DOMAIN last.before :
            (/\ IsFixedRow(last.before[i], last.targets)
             /\ last.before[i].room_id # 0
             /\ last.before[i].timeslot_id # 0)
                => \E j \in DOMAIN last.after :
                       last.after[j] = last.before[i]

\* How a call ends when a step of its save sequence raises.
SaveFailures ==
    {"IntegrityError", "ForeignKeyViolation", "StaleDataError",
     "InvalidRequestError"}

\* C10: a call whose save sequence fails after the solver succeeded leaves
\* the assignments table as it was before the call.
C10_FailedSaveKeepsTable ==
    (last.outcome \in SaveFailures) => last.after = last.before

\* C11: a call in which the solver reports infeasible returns None and
\* leaves the assignments and timetable_versions tables as they were.
C11_InfeasibleNoChange ==
    (last.outcome = "infeasible") =>
        /\ last.after = last.before
        /\ last.versions_after = last.versions_before

\* An infeasible full regeneration over the rows an earlier generation
\* stored, with its version in the table.
C11_Witness ==
    /\ last.outcome = "infeasible"
    /\ last.targets = {}
    /\ last.versions_before # <<>>
    /\ last.before # <<>>

\* C12: after a successful full generation every row that was in the
\* assignments table before the call is still there under its id, with a
\* room_id and a timeslot_id of the rooms and timeslots tables.
C12_RowsKeptWithPlacement ==
    (last.outcome = "saved" /\ last.targets = {}) =>
        \A i \in DOMAIN last.before :
            \E j \in DOMAIN last.after :
                /\ last.after[j].id = last.before[i].id
                /\ last.after[j].section_id = last.before[i].section_id
                /\ last.after[j].faculty_id = last.before[i].faculty_id
                /\ last.after[j].course_id = last.before[i].course_id
                /\ \E r \in DOMAIN RoomTable :
                       RoomTable[r].id = last.after[j].room_id
                /\ \E t \in DOMAIN TimeslotTable :
                       TimeslotTable[t].id = last.after[j].timeslot_id

\* C13: every TimetableVersion a call stores has a version_number above
\* that of every version stored before, and no call ends in a collision
\* with the unique constraint on version_number.
C13_VersionsIncrease ==
    /\ last.outcome # "IntegrityError"
    /\ (last.outcome = "saved") =>
          \A i \in DOMAIN last.versions_before :
              last.versions_before[i].version_number < last.version_number

\* C14: a result with is_feasible = false has an empty assignments list
\* and a conflict_reason, whatever the cause and the backend.
C14_InfeasibleIsEmpty ==
    (Called /\ ~Res.is_feasible) =>
        /\ Res.assignments = <<>>
        /\ Res.conflict_reason.msg # ""

\* The fallback search fails on an input whose first section can be placed
\* on its own.
C14_Witness ==
    /\ Called /\ ~ortools /\ ~Res.is_feasible
    /\ Len(Inp.sections) = 2
    /\ _solve_fallback([Inp EXCEPT !.sections = SubSeq(@, 1, 1)]).is_feasible

\* Some pinned (room, slot) of inp is not a variable of its requirement.
FixedOutsideDomain(inp) ==
    \E pr \in PeriodPairs(inp) :
        /\ IsFixed(inp.sections[pr[1]], pr[2])
        /\ FixedKey(inp.sections[pr[1]], pr[2]) \notin XKeys(inp)

\* The requirement periods of inp without any (room, slot) candidate.
EmptyDomains(inp) ==
    {pr \in PeriodPairs(inp) :
        PeriodKeys(inp, inp.sections[pr[1]], pr[2]) = {}}

\* C15: an infeasible result is INFEASIBLE_FIXED when a pin lies outside
\* the variable domain, INFEASIBLE_NO_CANDIDATES (naming the first such
\* requirement) when a period has no candidate, and INFEASIBLE only when
\* neither is the case.
C15_StatusClassified ==
    (Called /\ ~Res.is_feasible) =>
        /\ (FixedOutsideDomain(Inp) /\ EmptyDomains(Inp) = {}) =>
              Res.status = "INFEASIBLE_FIXED"
        /\ (EmptyDomains(Inp) # {} /\ ~FixedOutsideDomain(Inp)) =>
              /\ Res.status = "INFEASIBLE_NO_CANDIDATES"
              /\ \E pr \in EmptyDomains(Inp) :
                    /\ \A q \in EmptyDomains(Inp) : PairBefore(pr, q)
                    /\ Res.conflict_reason.section = Inp.sections[pr[1]].id
        /\ (Res.status = "INFEASIBLE") =>
              (~FixedOutsideDomain(Inp) /\ EmptyDomains(Inp) = {})

\* The placements of requirement s in list a that fall on a day.
OnDay(inp, a, s, day) ==
    {i \in PlacedAt(a, s.id) :
        SlotById(inp.timeslots, a[i].timeslot_id).day = day}

\* C16: in a feasible result a non-lab requirement has at most two
\* placements on any one day.
C16_DailyCap ==
    (Called /\ Res.is_feasible) =>
        \A s \in Range(Inp.sections) :
            (~s.is_lab) =>
                \A t \in Range(Inp.timeslots) :
                    Cardinality(OnDay(Inp, Res.assignments, s, t.day)) <= 2

\* A feasible result of the fallback for a lecture of three periods: two
\* of them are on one day, a third slot of that day is allowed, is not a
\* lunch start and is used by no placement, and the third period is on
\* another day.
C16_Witness ==
    /\ Called /\ Res.is_feasible
    /\ ~ortools
    /\ \E s \in Range(Inp.sections), t \in Range(Inp.timeslots) :
          /\ ~s.is_lab
          /\ s.required_periods >= 3
          /\ Cardinality(OnDay(Inp, Res.assignments, s, t.day)) = 2
          /\ t.id \in Range(s.allowed_slot_ids)
          /\ SlotTimeObj(t) \notin lunch_starts
          /\ \A i \in DOMAIN Res.assignments :
                Res.assignments[i].timeslot_id # t.id
          /\ Cardinality(PlacedAt(Res.assignments, s.id)) = 3

\* C17: no requirement is placed in a room with fewer seats than its
\* section has students (Room.capacity, Section.student_count): every row
\* a full generation stores is in a room that holds its section.
C17_CapacityRespected ==
    (last.outcome = "saved" /\ last.targets = {}) =>
        \A i \in DOMAIN last.after :
            RowById(RoomTable, last.after[i].room_id).capacity >=
                RowById(SectionTable, last.after[i].section_id).student_count

\* The room of a placement, by id.
RoomById(rooms, id) == rooms[MinOf({i \in DOMAIN rooms : rooms[i].id = id})]

\* C28: every placement of a feasible result is in a room of the type its
\* requirement asks for and in a slot of its allowed_slot_ids, lab second
\* periods and pinned placements included.
C28_PlacementsInDomain ==
    (Called /\ Res.is_feasible) =>
        \A i \in DOMAIN Res.assignments :
            LET pl == Res.assignments[i]
                s == SecById(Inp.sections, pl.section_id)
            IN  /\ \E r \in DOMAIN Inp.rooms : Inp.rooms[r].id = pl.room_id
                /\ RoomById(Inp.rooms, pl.room_id).type = s.room_type_required
                /\ pl.timeslot_id \in Range(s.allowed_slot_ids)

\* A feasible result with a lab in the only two slots it may use out of
\* three, found by either path.
C28_Witness ==
    /\ Called
    /\ Res.is_feasible
    /\ \E s \in Range(Inp.sections) :
          /\ s.is_lab
          /\ Range(s.allowed_slot_ids) # {t.id : t \in Range(Inp.timeslots)}
          /\ Cardinality(PlacedAt(Res.assignments, s.id)) = 2

\* The requirement (section, course, faculty) a row stands for, and the
\* number of periods its course calls for.
RequirementOf(a) == <<a.section_id, a.course_id, a.faculty_id>>

PeriodsOf(course_id) ==
    LET c == RowById(CourseTable, course_id)
    IN  IF Upper(c.type) = "LAB" THEN 2 ELSE c.credits

\* The table holds, for each requirement in it, one row per period.
ExactRows(table) ==
    \A i \in DOMAIN table :
        Cardinality({j \in DOMAIN table :
                        RequirementOf(table[j]) = RequirementOf(table[i])})
            = PeriodsOf(table[i].course_id)

\* The table holds one row per requirement.
OneRowEach(table) ==
    \A i, j \in DOMAIN table :
        (RequirementOf(table[i]) = RequirementOf(table[j])) => i = j

\* C26: a successful full regeneration, run on a table with one row per
\* requirement or on a table with exactly periods(course) rows per
\* requirement, leaves exactly periods(course) rows per requirement.
C26_RegenerationKeepsRowCount ==
    (/\ last.outcome = "saved"
     /\ last.targets = {}
     /\ OneRowEach(last.before) \/ ExactRows(last.before)) =>
        ExactRows(last.after)

(***************************************************************************)
(* Properties of the normalization agent                                   *)
(***************************************************************************)

\* The confirmation of a suggestion is an acceptance.
IsAccepted(conf, s) ==
    /\ s.cluster_id \in DOMAIN conf
    /\ conf[s.cluster_id] \in {"accepted", "ACCEPTED"}

\* What the claim requires of one mapping: its keys are the detected names
\* of the accepted suggestions, each mapped to its suggestion's canonical.
MappingIsAccepted(mapping, suggestions, conf) ==
    /\ DOMAIN mapping =
          UNION {Range(suggestions[i].detected_names) :
                    i \in {j \in DOMAIN suggestions :
                              IsAccepted(conf, suggestions[j])}}
    /\ \A i \in DOMAIN suggestions :
          IsAccepted(conf, suggestions[i]) =>
              /\ \A n \in Range(suggestions[i].detected_names) :
                    mapping[n] = suggestions[i].suggested_canonical
              /\ suggestions[i].suggested_canonical \in DOMAIN mapping
              /\ mapping[suggestions[i].suggested_canonical] =
                    suggestions[i].suggested_canonical

\* C18: the final mapping has exactly the detected names of the accepted
\* clusters as keys, each mapped to its cluster's canonical name, which maps
\* to itself; rejected and unconfirmed clusters contribute no entry.
C18_OnlyAcceptedMapped ==
    (norm_pc = "finalized") =>
        /\ MappingIsAccepted(final_mapping.faculty_mapping,
                             response.faculty_suggestions, confirmations.faculty)
        /\ MappingIsAccepted(final_mapping.course_mapping,
                             response.course_suggestions, confirmations.course)

\* A finalized mapping with an accepted faculty cluster and a cluster that
\* was rejected or left unconfirmed.
C18_Witness ==
    /\ norm_pc = "finalized"
    /\ \E i \in DOMAIN response.faculty_suggestions :
          IsAccepted(confirmations.faculty, response.faculty_suggestions[i])
    /\ \E i \in DOMAIN response.course_suggestions :
          ~IsAccepted(confirmations.course, response.course_suggestions[i])

\* C19: after the names were rewritten through an accept-all mapping,
\* analyzing them again and accepting every cluster rewrites no name to a
\* different name.
C19_Idempotent ==
    (norm_pc = "finalized" /\ normalized /\ AcceptsAll(response, confirmations)) =>
        /\ RewriteNames(request.faculty_names, final_mapping.faculty_mapping)
              = request.faculty_names
        /\ RewriteNames(request.course_names, final_mapping.course_mapping)
              = request.course_names

\* The suggestions of both entity types of the last analysis, each with the
\* names it was made from.
Analyzed == norm_pc # "idle"

AllSuggestions ==
    Range(response.faculty_suggestions) \cup Range(response.course_suggestions)

\* C24: the canonical of every cluster is a member of maximal length, and
\* no member before it in the cluster is as long.
C24_CanonicalFirstLongest ==
    Analyzed =>
        \A s \in AllSuggestions :
            \E i \in DOMAIN s.detected_names :
                /\ s.detected_names[i] = s.suggested_canonical
                /\ \A j \in DOMAIN s.detected_names :
                      /\ len(s.detected_names[j]) <= len(s.suggested_canonical)
                      /\ (j < i) =>
                            len(s.detected_names[j]) < len(s.suggested_canonical)

\* A cluster with two longest members, the canonical being the first.
C24_Witness ==
    /\ Analyzed
    /\ \E s \in AllSuggestions :
          \E i, j \in DOMAIN s.detected_names :
              /\ i < j
              /\ s.detected_names[i] = s.suggested_canonical
              /\ len(s.detected_names[j]) = len(s.suggested_canonical)

\* C25: every suggestion has confidence min(0.95, 0.70 + 0.10 * size) for a
\* size of two or more: 0.90 for two names, 0.95 from three names on, never
\* more than 0.95.
C25_ConfidenceCapped ==
    Analyzed =>
        \A s \in AllSuggestions :
            /\ Len(s.detected_names) >= 2
            /\ s.confidence <= 95
            /\ s.confidence # 100
            /\ (Len(s.detected_names) = 2) => (s.confidence = 90)
            /\ (Len(s.detected_names) >= 3) => (s.confidence = 95)

\* A suggestion for a cluster of three names, where the cap applies.
C25_Witness ==
    /\ Analyzed
    /\ \E s \in AllSuggestions : Len(s.detected_names) >= 3

\* The clusters returned for a list of names, and where a name stands in
\* the cleaned list.
ClustersOf(suggestions) ==
    [i \in DOMAIN suggestions |-> suggestions[i].detected_names]

Pos(cleaned, name) == IndexOf(name, cleaned)

Clustered(clusters) == UNION {Range(clusters[i]) : i \in DOMAIN clusters}

\* What the claim says of the clusters returned for the cleaned names.
GreedyClusters(sim, cleaned, clusters) ==
    /\ \A i \in DOMAIN clusters :
          LET c == clusters[i]
          IN  /\ Len(c) >= 2
              /\ Range(c) \subseteq Range(cleaned)
              /\ \A j, k \in DOMAIN c :
                    (j < k) => Pos(cleaned, c[j]) < Pos(cleaned, c[k])
              /\ \A j \in DOMAIN c : (j > 1) => SimilarEnough(sim, c[1], c[j])
              /\ \A n \in Range(cleaned) :
                    (/\ Pos(cleaned, n) > Pos(cleaned, c[1])
                     /\ SimilarEnough(sim, c[1], n)
                     /\ \A h \in DOMAIN clusters :
                           (h < i) => n \notin Range(clusters[h]))
                    => n \in Range(c)
    /\ \A i, j \in DOMAIN clusters :
          (i < j) =>
              /\ Range(clusters[i]) \cap Range(clusters[j]) = {}
              /\ Pos(cleaned, clusters[i][1]) < Pos(cleaned, clusters[j][1])
    /\ \A m \in Range(cleaned) \ Clustered(clusters) :
          \A n \in Range(cleaned) \ Clustered(clusters) :
              (Pos(cleaned, m) < Pos(cleaned, n)) => ~SimilarEnough(sim, m, n)

\* C29: the clusters are the greedy single pass over the cleaned names in
\* input order: each seeds on a name not yet clustered, absorbs every later
\* not yet clustered name similar to the seed, has at least two names, and
\* no name is in two clusters.
C29_GreedySinglePass ==
    Analyzed =>
        /\ GreedyClusters(similar, _clean_names(request.faculty_names),
                          ClustersOf(response.faculty_suggestions))
        /\ GreedyClusters(similar, _clean_names(request.course_names),
                          ClustersOf(response.course_suggestions))

\* A cluster next to a name left out of it although it is similar to a
\* member that is not the seed.
C29_Witness ==
    /\ Analyzed
    /\ \E s \in Range(response.faculty_suggestions) :
          \E n \in Range(_clean_names(request.faculty_names)) :
              /\ n \notin Range(s.detected_names)
              /\ \E j \in DOMAIN s.detected_names :
                    j > 1 /\ SimilarEnough(similar, s.detected_names[j], n)

(***************************************************************************)
(* Properties of the integrity verifier                                    *)
(***************************************************************************)

\* The first of the values that is a value at all.
FirstGiven(values) ==
    LET given == {i \in DOMAIN values : ~Falsy(values[i])}
    IN  IF given = {} THEN None ELSE values[MinOf(given)]

\* The references of a mapping row under the accepted column alternatives
\* (validator.py 25), and the values of the tables they resolve against.
FacultyRef(m) == FirstGiven(<<m.faculty_email, m.faculty_id, m.faculty_code>>)

CourseRef(m) == FirstGiven(<<m.course_id, m.course_code>>)

SectionRef(m) == FirstGiven(<<m.section_id, m.code, m.section>>)

FacultyKeys(d) ==
    UNION {{f.id, f.faculty_id, f.email} : f \in Range(d.faculty)} \ {None, ""}

CourseKeys(d) ==
    UNION {{c.code, c.course_id} : c \in Range(d.courses)} \ {None, ""}

SectionKeys(d) ==
    UNION {{s.id, s.section_id} : s \in Range(d.sections)} \ {None, ""}

\* The issue an unresolved reference calls for, none for one that resolves
\* or is not given.
IssueFor(kind, ref, keys) ==
    IF ~Falsy(ref) /\ ref \notin keys THEN {Issue(kind, ref)} ELSE {}

ExpectedIssues(d, m) ==
    IssueFor("Unknown faculty", FacultyRef(m), FacultyKeys(d))
    \cup IssueFor("Unknown course", CourseRef(m), CourseKeys(d))
    \cup IssueFor("Unknown section", SectionRef(m), SectionKeys(d))

Verified == metrics # NoMetrics

\* C20: every mapping row with an unresolved faculty, course or section
\* reference, under any of the accepted columns, has an issue recorded, and
\* every recorded issue names an unresolved reference of some row.
C20_BrokenRefsReported ==
    Verified =>
        /\ \A m \in Range(data.faculty_course_map) :
              (ExpectedIssues(data, m) # {}) =>
                  (ExpectedIssues(data, m) \cap Range(metrics.issues) # {})
        /\ \A e \in Range(metrics.issues) :
              \E m \in Range(data.faculty_course_map) :
                  e \in ExpectedIssues(data, m)

(***************************************************************************)
(* Properties of the upload validator and the integrity report            *)
(***************************************************************************)

Validated == "validated" \in upload_pc

VerifiedAll == "verified" \in upload_pc

\* The codes of the uploaded courses: their code, else their course_id.
UploadedCourses == {Or(c.code, c.course_id) : c \in Range(upload.courses)}

\* The mapping rows whose course_id matches no uploaded course.
UnknownCourseRows ==
    {i \in DOMAIN upload.faculty_course_map :
        /\ ~Falsy(upload.faculty_course_map[i].course_id)
        /\ upload.faculty_course_map[i].course_id \notin UploadedCourses}

\* The structural checks of step 1 found no error.
StructureAccepted ==
    \A i \in DOMAIN validation.errors :
        validation.errors[i].kind \notin {"Missing entity data",
                                          "missing mandatory column"}

\* C21: once validate_structure has returned for an upload that passes the
\* structural checks, a faculty_course_map row whose course_id matches no
\* uploaded course makes is_valid false, and the errors hold an
\* unknown-course entry for each such row.
C21_UnknownCourseRejected ==
    (Validated /\ StructureAccepted /\ UnknownCourseRows # {}) =>
        /\ ~validation.is_valid
        /\ Cardinality({i \in DOMAIN validation.errors :
                           validation.errors[i].kind = "unknown course"})
              >= Cardinality(UnknownCourseRows)

ReportMetrics == MetricsValues(report.metrics)

RECURSIVE ProductOfDen(_, _)
ProductOfDen(ms, i) ==
    IF i > Len(ms) THEN 1
    ELSE ms[i].completeness_percent.den * ProductOfDen(ms, i + 1)

\* The sum of the completeness values, over the denominator ProductOfDen.
RECURSIVE ScaledSum(_, _, _)
ScaledSum(ms, i, D) ==
    IF i > Len(ms) THEN 0
    ELSE ms[i].completeness_percent.num * (D \div ms[i].completeness_percent.den)
         + ScaledSum(ms, i + 1, D)

NoEntityIssue == \A i \in DOMAIN ReportMetrics : ReportMetrics[i].issues = <<>>

\* C22: once verify_all has returned, five times overall_score is the sum
\* of the five completeness_percent values, and is_healthy holds exactly
\* when overall_score is at least 80 and no entity metric has an issue.
C22_ScoreIsMeanAndHealth ==
    VerifiedAll =>
        LET D == ProductOfDen(ReportMetrics, 1)
            score == report.overall_score
        IN  /\ score.den > 0
            /\ 5 * score.num * D = score.den * ScaledSum(ReportMetrics, 1, D)
            /\ report.is_healthy <=> (score.num >= 80 * score.den /\ NoEntityIssue)

\* A report whose score is at least 80 while an entity has an issue.
C22_Witness ==
    /\ VerifiedAll
    /\ report.overall_score.num >= 80 * report.overall_score.den
    /\ ~NoEntityIssue
    /\ ~report.is_healthy

\* C30: once verify_all has returned, every completeness_percent and the
\* overall_score lie between 0 and 100.
C30_CompletenessInRange ==
    VerifiedAll =>
        /\ \A i \in DOMAIN ReportMetrics :
              LET c == ReportMetrics[i].completeness_percent
              IN  0 <= c.num /\ c.num <= 100 * c.den
        /\ 0 <= report.overall_score.num
        /\ report.overall_score.num <= 100 * report.overall_score.den

(***************************************************************************)
(* Properties of the shift resolution                                      *)
(***************************************************************************)

\* The slot lies inside the window of the shift; any other shift has none.
InWindow(t, shift) ==
    CASE shift = "SHIFT_8_4" -> t.start_time >= 8 * 60 /\ t.end_time <= 16 * 60
      [] shift = "SHIFT_10_6" -> t.start_time >= 10 * 60 /\ t.end_time <= 18 * 60
      [] OTHER -> TRUE

\* The slot starts at the lunch start of the shift.
AtLunch(t, shift) ==
    \/ shift = "SHIFT_8_4" /\ t.start_time = 12 * 60
    \/ shift = "SHIFT_10_6" /\ t.start_time = 13 * 60

\* C27: the allowed slot ids built for an assignment are exactly the ids of
\* the timeslots with day in 0..4 that lie in the window of the section's
\* shift and do not start at the shift's lunch start.
C27_AllowedSlotsInShift ==
    resolved =>
        Range(allowed_slots) =
            {t.id : t \in {u \in Range(slot_rows) :
                              /\ u.day \in 0..4
                              /\ InWindow(u, sec_shift)
                              /\ ~AtLunch(u, sec_shift)}}

\* A SHIFT_10_6 section for which a weekday slot starting at 13:00, a slot
\* before 10:00 and a slot ending after 18:00 were all left out.
C27_Witness ==
    /\ resolved
    /\ sec_shift = "SHIFT_10_6"
    /\ allowed_slots # <<>>
    /\ \E t \in Range(slot_rows) :
          t.day <= 4 /\ t.start_time = 13 * 60 /\ t.id \notin Range(allowed_slots)
    /\ \E t \in Range(slot_rows) :
          t.day <= 4 /\ t.start_time < 10 * 60 /\ t.id \notin Range(allowed_slots)
    /\ \E t \in Range(slot_rows) :
          t.day <= 4 /\ t.end_time > 18 * 60 /\ t.id \notin Range(allowed_slots)

(***************************************************************************)
(* Properties of the repair engine                                         *)
(***************************************************************************)

\* The places the final assignments give to assignment id.
FinalPlaces(id) ==
    {<<repair.result.final_assignments[i].room_id,
       repair.result.final_assignments[i].timeslot_id>> :
        i \in PlacedAt(repair.result.final_assignments, id)}

\* C23: after a successful repair_schedule every locked id is at exactly its
\* previous (room, slot) and every problem id is at a place other than its
\* previous one; after a failed one the schedule is as it was.
C23_RepairFrame ==
    repairs > 0 =>
        IF repair.result.success
        THEN \A a \in Range(repair.before) :
                /\ a.id \in repair.locked_assignment_ids
                     => FinalPlaces(a.id) = {<<a.room_id, a.timeslot_id>>}
                /\ a.id \in repair.problem_assignment_ids
                     => /\ FinalPlaces(a.id) # {}
                        /\ <<a.room_id, a.timeslot_id>> \notin FinalPlaces(a.id)
        ELSE schedule = repair.before

====
